---------------------------- MODULE Spec2Model ----------------------------
(***************************************************************************)
(* A model of moth: the categorization engine of src/moth/__main__.py      *)
(* (categorize, with its loaders and its saver) and the amount             *)
(* interpretation and activity summary of                                  *)
(* src/moth/extractors/chase_legacy.py.                                    *)
(*                                                                         *)
(* A Python str is a sequence of one-character strings, so that strip(),   *)
(* upper(), replace(), startswith() and sorted() are computed, not         *)
(* assumed.  A CSV file is a record: whether it exists, its header         *)
(* (fieldnames) and its rows, each row a function from column names to     *)
(* cells as csv.DictReader yields them.                                    *)
(***************************************************************************)
EXTENDS Integers, Sequences, FiniteSets, TLC

(***************************************************************************)
(* Bounds of the model.                                                    *)
(***************************************************************************)
\* the longest ledger (rows of the transactions CSV)
MaxRows == 2
\* the most transactions of one statement
MaxTxns == 3

(***************************************************************************)
(* Strings.                                                                *)
(***************************************************************************)
\* "" in Python
Empty == << >>

\* str.isspace() for one character, over the model's alphabet
IsSpace(c) == c = " "

\* the order of code points, for the characters the model uses
Code(c) ==
    CASE c = "\n" -> 10
      [] c = "\r" -> 13
      [] c = " " -> 32
      [] c = "\"" -> 34
      [] c = "$" -> 36
      [] c = "(" -> 40
      [] c = ")" -> 41
      [] c = "+" -> 43
      [] c = "," -> 44
      [] c = "-" -> 45
      [] c = "." -> 46
      [] c = "0" -> 48
      [] c = "1" -> 49
      [] c = "2" -> 50
      [] c = "3" -> 51
      [] c = "4" -> 52
      [] c = "5" -> 53
      [] c = "6" -> 54
      [] c = "7" -> 55
      [] c = "8" -> 56
      [] c = "9" -> 57
      [] c = "C" -> 67
      [] c = "D" -> 68
      [] c = "G" -> 71
      [] c = "H" -> 72
      [] c = "R" -> 82
      [] c = "a" -> 97
      [] c = "b" -> 98
      [] c = "c" -> 99
      [] c = "r" -> 114
      [] c = "MINUS" -> 8722

RECURSIVE LStrip(_)
\* str.lstrip()
LStrip(s) ==
    IF s # Empty /\ IsSpace(Head(s)) THEN LStrip(Tail(s)) ELSE s

RECURSIVE RStrip(_)
\* str.rstrip()
RStrip(s) ==
    IF s # Empty /\ IsSpace(s[Len(s)]) THEN RStrip(SubSeq(s, 1, Len(s) - 1)) ELSE s

\* str.strip()
Strip(s) == RStrip(LStrip(s))

RECURSIVE StrLess(_, _)
\* s < t for two str: lexicographic by code point
StrLess(s, t) ==
    IF t = Empty THEN FALSE
    ELSE IF s = Empty THEN TRUE
    ELSE IF Head(s) # Head(t) THEN Code(Head(s)) < Code(Head(t))
    ELSE StrLess(Tail(s), Tail(t))

RECURSIVE SortedSeq(_)
\* sorted(S) for a set of str
SortedSeq(S) ==
    IF S = {} THEN << >>
    ELSE LET m == CHOOSE x \in S : \A y \in S \ {x} : StrLess(x, y)
         IN  <<m>> \o SortedSeq(S \ {m})

\* row.get(k) or "" : a missing key and an empty cell both read as ""
Get(row, k) == IF k \in DOMAIN row THEN row[k] ELSE Empty

\* c in fieldnames, for a list
InList(c, fieldnames) == \E i \in 1..Len(fieldnames) : fieldnames[i] = c


(***************************************************************************)
(* The state: the three CSV files and the locals of one categorize call.   *)
(***************************************************************************)
VARIABLES
    ledgerFile,                 \* input_csv: [exists, fieldnames, rows]
    rulesFile,                  \* categories_file
    masterFile,                 \* master_categories_file
    pc,                         \* where categorize is
    rerun,                      \* history: this invocation follows a completed one, files untouched since
    fieldnames,                 \* the ledger's header as read
    rows,                       \* list(reader); its dicts are the ones updated_rows holds
    idx,                        \* enumerate(rows, start=1)
    group_to_categories,
    rules,
    total_rows,
    auto_assigned,
    already_categorized,
    uncategorized,
    new_rules,
    rules_skipped_invalid_pair,
    rules_skipped_conflict,
    updated_rows,
    row_statuses,
    warnings,                   \* what the run printed as warnings and errors: <<kind, row index>>
    ledger0,                    \* history: the ledger file when this run started
    rulesFile0,                 \* history: the rule file when this run started
    rules0,                     \* history: the rules as loaded by this run
    written                     \* history: the files this run opened for writing

catVars == <<ledgerFile, rulesFile, masterFile, pc, rerun, fieldnames, rows, idx,
             group_to_categories, rules, total_rows, auto_assigned,
             already_categorized, uncategorized, new_rules,
             rules_skipped_invalid_pair, rules_skipped_conflict, updated_rows,
             row_statuses, warnings, ledger0, rulesFile0, rules0, written>>

VARIABLES
    amount_group,               \* the text the amount group of DATE_LINE_RE matched
    amount_display,             \* Txn.amount_display
    val,                        \* what _amount_to_value returned, in hundredths
    apc,                        \* where the interpretation of one amount is
    txns,                       \* the list _write_activity_csv is given
    ti,                         \* the next transaction of its loop
    pos_count,
    neg_count,
    pos_sum,
    neg_sum,
    out_rows,                   \* the rows written to the activity CSV so far
    wpc                         \* where _write_activity_csv is

amountVars == <<amount_group, amount_display, val, apc>>

activityVars == <<txns, ti, pos_count, neg_count, pos_sum, neg_sum, out_rows, wpc>>

VARIABLES
    saved_rules,                \* the rules _save_category_rules is given
    store_text,                 \* the characters of the rule file
    loaded_rules,               \* what _load_category_rules returns
    spc                         \* where the save and the load of the rule store are

storeVars == <<saved_rules, store_text, loaded_rules, spc>>

VARIABLES
    warn_no_group,              \* the counters of check
    warn_no_category,
    warn_invalid_pair,
    warn_rule_conflict,
    warn_rule_missing_for_used,
    info_rule_could_apply,
    check_log                   \* what check printed about the rows: <<kind, row index>>, and
                                \* <<"rule_could_apply", row index, pair>>

checkVars == <<warn_no_group, warn_no_category, warn_invalid_pair, warn_rule_conflict,
               warn_rule_missing_for_used, info_rule_could_apply, check_log>>

VARIABLES
    date_text,                  \* the date a line starts with, up to the first space
    closing_year,
    closing_month,
    mm,                         \* int(m.group("m"))
    dd,                         \* int(m.group("d"))
    y_from_line,                \* the year of the line, -1 for None
    full_date,                  \* Txn.yyyy_mm_dd
    dpc                         \* where the dating of one line is

dateVars == <<date_text, closing_year, closing_month, mm, dd, y_from_line, full_date, dpc>>

VARIABLES
    pages,                      \* pdf.pages: the lines of the text of each page
    page_no,                    \* the page of "for page in pdf.pages"
    line_no,                    \* the line of "for ln in page_lines"
    in_section,
    lines,                      \* the lines collected
    scpc                        \* where _extract_activity_lines is

scanVars == <<pages, page_no, line_no, in_section, lines, scpc>>

VARIABLES
    pdf,                        \* the statement: whether it can be read, the text of its pages
    legacy_rows,                \* how many rows the legacy extractor's CSV has
    mmddyy,                     \* group 2 of the match of date_pattern
    statement_date_value,
    out_csv,                    \* the statement_date cells of the rows written to out_csv
    fpc                         \* where extract_chase_activity is

stmtVars == <<pdf, legacy_rows, mmddyy, statement_date_value, out_csv, fpc>>

vars ==
    <<catVars, amountVars, activityVars, storeVars, checkVars, dateVars, scanVars, stmtVars>>

\* the variables a step of categorize, of the amount interpretation, of the
\* activity CSV, of the rule store, of check, of the dating of a line leaves alone
notCatVars ==
    <<amountVars, activityVars, storeVars, checkVars, dateVars, scanVars, stmtVars>>
notAmountVars ==
    <<catVars, activityVars, storeVars, checkVars, dateVars, scanVars, stmtVars>>
notActivityVars ==
    <<catVars, amountVars, storeVars, checkVars, dateVars, scanVars, stmtVars>>
notStoreVars ==
    <<catVars, amountVars, activityVars, checkVars, dateVars, scanVars, stmtVars>>
notCheckVars ==
    <<amountVars, activityVars, storeVars, dateVars, scanVars, stmtVars>>
notDateVars ==
    <<catVars, amountVars, activityVars, storeVars, checkVars, scanVars, stmtVars>>
notScanVars ==
    <<catVars, amountVars, activityVars, storeVars, checkVars, dateVars, stmtVars>>
notStmtVars ==
    <<catVars, amountVars, activityVars, storeVars, checkVars, dateVars, scanVars>>

\* required_cols of categorize
required_cols == <<"statement_date", "date", "description", "amount", "group", "category">>

\* name.lower() for the header names the model uses
Lower(name) ==
    CASE name = "Group" -> "group"
      [] name = "Category" -> "category"
      [] name = "Description" -> "description"
      [] OTHER -> name

\* the loaders' scan of the header: the last field whose lower-cased name is `want`, or "" (None)
FindField(names, want) ==
    LET hits == {i \in 1..Len(names) : Lower(names[i]) = want}
    IN  IF hits = {} THEN ""
        ELSE names[CHOOSE i \in hits : \A j \in hits : j <= i]

\* a dict with no key
EmptyDict == [k \in {} |-> {}]

\* d[k] = v
DictSet(d, k, v) == [x \in DOMAIN d \cup {k} |-> IF x = k THEN v ELSE d[x]]

RECURSIVE MasterRows(_, _, _, _, _)
\* the row loop of _load_group_category_master, from row i on
MasterRows(frows, i, group_field, category_field, acc) ==
    IF i > Len(frows) THEN acc.g2c
    ELSE LET raw_group == Strip(Get(frows[i], group_field))
             raw_cat == Strip(Get(frows[i], category_field))
             pair == <<raw_group, raw_cat>>
         IN  IF raw_group = Empty /\ raw_cat = Empty
                 THEN MasterRows(frows, i + 1, group_field, category_field, acc)
             ELSE IF raw_group = Empty \/ raw_cat = Empty
                 THEN MasterRows(frows, i + 1, group_field, category_field, acc)
             ELSE IF pair \in acc.seen_pairs
                 THEN MasterRows(frows, i + 1, group_field, category_field, acc)
             ELSE MasterRows(frows, i + 1, group_field, category_field,
                     [seen_pairs |-> acc.seen_pairs \cup {pair},
                      g2c |-> DictSet(acc.g2c, raw_group,
                                 (IF raw_group \in DOMAIN acc.g2c
                                  THEN acc.g2c[raw_group] ELSE {}) \cup {raw_cat})])

\* _load_group_category_master: group -> set of categories
LoadGroupCategoryMaster(file) ==
    IF ~file.exists THEN EmptyDict
    ELSE LET group_field == FindField(file.fieldnames, "group")
             category_field == FindField(file.fieldnames, "category")
         IN  IF group_field = "" \/ category_field = "" THEN EmptyDict
             ELSE LET g2c == MasterRows(file.rows, 1, group_field, category_field,
                                        [seen_pairs |-> {}, g2c |-> EmptyDict])
                  IN  [g \in {x \in DOMAIN g2c : g2c[x] # {}} |-> g2c[g]]

RECURSIVE RuleRows(_, _, _, _, _, _)
\* the row loop of _load_category_rules, from row i on
RuleRows(frows, i, desc_field, group_field, category_field, acc) ==
    IF i > Len(frows) THEN acc
    ELSE LET desc == Strip(Get(frows[i], desc_field))
             grp == Strip(Get(frows[i], group_field))
             cat == Strip(Get(frows[i], category_field))
         IN  RuleRows(frows, i + 1, desc_field, group_field, category_field,
                 IF desc # Empty /\ grp # Empty /\ cat # Empty
                 THEN DictSet(acc, desc, <<grp, cat>>) ELSE acc)

\* _load_category_rules: description -> (group, category)
LoadCategoryRules(file) ==
    IF ~file.exists THEN EmptyDict
    ELSE LET desc_field == FindField(file.fieldnames, "description")
             group_field == FindField(file.fieldnames, "group")
             category_field == FindField(file.fieldnames, "category")
         IN  IF desc_field = "" \/ group_field = "" \/ category_field = ""
             THEN EmptyDict
             ELSE RuleRows(file.rows, 1, desc_field, group_field, category_field, EmptyDict)

\* one row of the rule file as _save_category_rules writes it
RuleRow(desc, pair) ==
    [description |-> desc, group |-> pair[1], category |-> pair[2]]

\* _save_category_rules: the whole file, one row per description, sorted by description
SavedRulesFile(rls) ==
    LET order == SortedSeq(DOMAIN rls)
    IN  [exists |-> TRUE,
         fieldnames |-> <<"description", "group", "category">>,
         rows |-> [i \in 1..Len(order) |-> RuleRow(order[i], rls[order[i]])]]


(***************************************************************************)
(* categorize, step by step.                                               *)
(***************************************************************************)
\* a mutant of MissingCols: the category column is not asked for
MissingColsButCategory(names) ==
    SelectSeq(required_cols, LAMBDA c : c # "category" /\ ~InList(c, names))

\* missing = [c for c in required_cols if c not in fieldnames]
MissingCols(names) == SelectSeq(required_cols, LAMBDA c : ~InList(c, names))

\* group_to_categories.get(grp, set())
ValidCats(g2c, grp) == IF grp \in DOMAIN g2c THEN g2c[grp] ELSE {}

\* a mutant of PairIsValid: any full pair passes, the master categories are not asked
PairIsValidUnchecked(g2c, grp, cat) == grp # Empty /\ cat # Empty

\* pair_is_valid: both present and the pair is in the master categories
PairIsValid(g2c, grp, cat) ==
    grp # Empty /\ cat # Empty /\ cat \in ValidCats(g2c, grp)

\* a mutant of RowBranch: a row with a group or a category only is treated as a blank one
RowBranchPartialAsBlank(rls, desc, grp, cat, pair_is_valid) ==
    IF desc = Empty THEN "no_description"
    ELSE IF grp # Empty /\ cat # Empty THEN
        IF ~pair_is_valid THEN "invalid_pair"
        ELSE IF desc \notin DOMAIN rls THEN "new_rule"
        ELSE IF rls[desc] = <<grp, cat>> THEN "same_rule"
        ELSE "conflict"
    ELSE IF desc \in DOMAIN rls THEN "auto_assign" ELSE "blank_no_rule"

\* which arm of the loop body a row takes
RowBranch(rls, desc, grp, cat, pair_is_valid) ==
    IF desc = Empty THEN "no_description"
    ELSE IF grp # Empty /\ cat # Empty THEN
        IF ~pair_is_valid THEN "invalid_pair"
        ELSE IF desc \notin DOMAIN rls THEN "new_rule"
        ELSE IF rls[desc] = <<grp, cat>> THEN "same_rule"
        ELSE "conflict"
    ELSE IF grp = Empty /\ cat = Empty THEN
        IF desc \in DOMAIN rls THEN "auto_assign" ELSE "blank_no_rule"
    ELSE "partial"

\* a mutant of RulesAfterRow: on a conflict the row's pair replaces the rule
RulesAfterRowLastWins(rls, desc, grp, cat, branch) ==
    IF branch \in {"new_rule", "conflict"} THEN DictSet(rls, desc, <<grp, cat>>) ELSE rls

\* the rules after a row: only a valid pair with no rule yet writes one
RulesAfterRow(rls, desc, grp, cat, branch) ==
    IF branch = "new_rule" THEN DictSet(rls, desc, <<grp, cat>>) ELSE rls

\* a mutant of RowAfter: a conflicting row is made to match the rule
RowAfterMatchingRule(row, rls, desc, branch) ==
    IF branch \in {"auto_assign", "conflict"}
    THEN DictSet(DictSet(row, "group", rls[desc][1]), "category", rls[desc][2])
    ELSE row

\* a mutant of RowAfter: the rule's category is assigned to both cells
RowAfterCategoryTwice(row, rls, desc, branch) ==
    IF branch = "auto_assign"
    THEN DictSet(DictSet(row, "group", rls[desc][2]), "category", rls[desc][2])
    ELSE row

\* the row after the loop body: only the auto-assign arm assigns to it
RowAfter(row, rls, desc, branch) ==
    IF branch = "auto_assign"
    THEN DictSet(DictSet(row, "group", rls[desc][1]), "category", rls[desc][2])
    ELSE row

\* the TxStatus appended for the row
StatusAfter(branch, pair_is_valid) ==
    IF branch = "auto_assign" THEN "auto-pending"
    ELSE IF branch \in {"blank_no_rule", "partial"} THEN "unassigned"
    ELSE IF pair_is_valid THEN "manual"
    ELSE "unassigned"

\* the warnings the loop body prints for the row, in order
RowWarnings(i, grp, cat, pair_is_valid, branch) ==
    (IF cat # Empty /\ grp = Empty THEN << <<"no_group", i>> >> ELSE << >>)
    \o (IF grp # Empty /\ cat = Empty THEN << <<"no_category", i>> >> ELSE << >>)
    \o (IF grp # Empty /\ cat # Empty /\ ~pair_is_valid
        THEN << <<"invalid_pair", i>> >> ELSE << >>)
    \o (IF branch = "conflict" THEN << <<"conflict", i>> >> ELSE << >>)

\* 1 when the condition holds: a counter's increment
Inc(cond) == IF cond THEN 1 ELSE 0

\* the ledger file as the DictWriter leaves it: the header read, then updated_rows
WrittenLedgerFile(names, urows) ==
    [exists |-> TRUE, fieldnames |-> names, rows |-> urows]

\* the locals no step has set yet
Locals0 ==
    /\ fieldnames = << >>
    /\ rows = << >>
    /\ idx = 1
    /\ group_to_categories = EmptyDict
    /\ rules = EmptyDict
    /\ total_rows = 0
    /\ auto_assigned = 0
    /\ already_categorized = 0
    /\ uncategorized = 0
    /\ new_rules = 0
    /\ rules_skipped_invalid_pair = 0
    /\ rules_skipped_conflict = 0
    /\ updated_rows = << >>
    /\ row_statuses = << >>
    /\ warnings = << >>
    /\ rules0 = EmptyDict
    /\ written = {}

\* the same, as the next state
Locals0Next ==
    /\ fieldnames' = << >>
    /\ rows' = << >>
    /\ idx' = 1
    /\ group_to_categories' = EmptyDict
    /\ rules' = EmptyDict
    /\ total_rows' = 0
    /\ auto_assigned' = 0
    /\ already_categorized' = 0
    /\ uncategorized' = 0
    /\ new_rules' = 0
    /\ rules_skipped_invalid_pair' = 0
    /\ rules_skipped_conflict' = 0
    /\ updated_rows' = << >>
    /\ row_statuses' = << >>
    /\ warnings' = << >>
    /\ rules0' = EmptyDict
    /\ written' = {}

\* categorize: the transactions CSV does not exist
LedgerNotFound ==
    /\ pc = "start"
    /\ ~ledgerFile.exists
    /\ pc' = "aborted"
    /\ warnings' = Append(warnings, <<"ledger_not_found", 0>>)
    /\ UNCHANGED <<ledgerFile, rulesFile, masterFile, rerun, fieldnames, rows, idx,
                   group_to_categories, rules, total_rows, auto_assigned,
                   already_categorized, uncategorized, new_rules,
                   rules_skipped_invalid_pair, rules_skipped_conflict,
                   updated_rows, row_statuses, ledger0, rulesFile0, rules0, written>>
    /\ UNCHANGED notCatVars

\* categorize: the CSV is read and lacks a required column
LedgerMissingColumns ==
    /\ pc = "start"
    /\ ledgerFile.exists
    /\ MissingCols(ledgerFile.fieldnames) # << >>
    /\ fieldnames' = ledgerFile.fieldnames
    /\ rows' = ledgerFile.rows
    /\ pc' = "aborted"
    /\ warnings' = Append(warnings, <<"missing_columns", 0>>)
    /\ UNCHANGED <<ledgerFile, rulesFile, masterFile, rerun, idx,
                   group_to_categories, rules, total_rows, auto_assigned,
                   already_categorized, uncategorized, new_rules,
                   rules_skipped_invalid_pair, rules_skipped_conflict,
                   updated_rows, row_statuses, ledger0, rulesFile0, rules0, written>>
    /\ UNCHANGED notCatVars

\* categorize: the CSV is read, the master categories and the rules are loaded
LoadAll ==
    /\ pc = "start"
    /\ ledgerFile.exists
    /\ MissingCols(ledgerFile.fieldnames) = << >>
    /\ fieldnames' = ledgerFile.fieldnames
    /\ rows' = ledgerFile.rows
    /\ group_to_categories' = LoadGroupCategoryMaster(masterFile)
    /\ rules' = LoadCategoryRules(rulesFile)
    /\ rules0' = LoadCategoryRules(rulesFile)
    /\ pc' = "rows"
    /\ UNCHANGED <<ledgerFile, rulesFile, masterFile, rerun, idx, total_rows,
                   auto_assigned, already_categorized, uncategorized, new_rules,
                   rules_skipped_invalid_pair, rules_skipped_conflict,
                   updated_rows, row_statuses, warnings, ledger0, rulesFile0, written>>
    /\ UNCHANGED notCatVars

\* categorize: one pass of "for idx, row in enumerate(rows, start=1)"
ProcessRow ==
    /\ pc = "rows"
    /\ idx <= Len(rows)
    /\ LET row == rows[idx]
           desc == Strip(Get(row, "description"))
           grp == Strip(Get(row, "group"))
           cat == Strip(Get(row, "category"))
           pair_is_valid == PairIsValid(group_to_categories, grp, cat)
           branch == RowBranch(rules, desc, grp, cat, pair_is_valid)
           row2 == RowAfter(row, rules, desc, branch)
       IN  /\ total_rows' = total_rows + 1
           /\ rules' = RulesAfterRow(rules, desc, grp, cat, branch)
           /\ rows' = [rows EXCEPT ![idx] = row2]
           /\ updated_rows' = Append(updated_rows, row2)
           /\ row_statuses' = Append(row_statuses, StatusAfter(branch, pair_is_valid))
           /\ warnings' = warnings \o RowWarnings(idx, grp, cat, pair_is_valid, branch)
           /\ already_categorized' = already_categorized
                + Inc(pair_is_valid /\ branch \in {"no_description", "new_rule", "same_rule", "conflict"})
           /\ uncategorized' = uncategorized
                + Inc(\/ branch = "no_description" /\ ~pair_is_valid
                      \/ branch \in {"invalid_pair", "blank_no_rule", "partial"})
           /\ auto_assigned' = auto_assigned + Inc(branch = "auto_assign")
           /\ new_rules' = new_rules + Inc(branch = "new_rule")
           /\ rules_skipped_invalid_pair' = rules_skipped_invalid_pair + Inc(branch = "invalid_pair")
           /\ rules_skipped_conflict' = rules_skipped_conflict + Inc(branch = "conflict")
    /\ idx' = idx + 1
    /\ UNCHANGED <<ledgerFile, rulesFile, masterFile, pc, rerun, fieldnames,
                   group_to_categories, ledger0, rulesFile0, rules0, written>>
    /\ UNCHANGED notCatVars

\* categorize: the transactions are written back to the same CSV
WriteLedger ==
    /\ pc = "rows"
    /\ idx > Len(rows)
    /\ ledgerFile' = WrittenLedgerFile(fieldnames, updated_rows)
    /\ written' = written \cup {"ledger"}
    /\ pc' = "save_rules"
    /\ UNCHANGED <<rulesFile, masterFile, rerun, fieldnames, rows, idx,
                   group_to_categories, rules, total_rows, auto_assigned,
                   already_categorized, uncategorized, new_rules,
                   rules_skipped_invalid_pair, rules_skipped_conflict,
                   updated_rows, row_statuses, warnings, ledger0, rulesFile0, rules0>>
    /\ UNCHANGED notCatVars

\* categorize: _save_category_rules, then the summary
SaveRules ==
    /\ pc = "save_rules"
    /\ rulesFile' = SavedRulesFile(rules)
    /\ written' = written \cup {"rules"}
    /\ pc' = "done"
    /\ UNCHANGED <<ledgerFile, masterFile, rerun, fieldnames, rows, idx,
                   group_to_categories, rules, total_rows, auto_assigned,
                   already_categorized, uncategorized, new_rules,
                   rules_skipped_invalid_pair, rules_skipped_conflict,
                   updated_rows, row_statuses, warnings, ledger0, rulesFile0, rules0>>
    /\ UNCHANGED notCatVars

\* main: categorize is invoked again on the same three paths, nothing edited in between
RunAgain ==
    /\ pc = "done"
    /\ pc' = "start"
    /\ rerun' = TRUE
    /\ ledger0' = ledgerFile
    /\ rulesFile0' = rulesFile
    /\ Locals0Next
    /\ UNCHANGED <<ledgerFile, rulesFile, masterFile>>
    /\ UNCHANGED notCatVars


(***************************************************************************)
(* chase_legacy: the amount grammar and _amount_to_value.  A value is kept *)
(* in hundredths, which is exact for amounts of at most two fraction       *)
(* digits; U+2212 is the one-character string "MINUS".                     *)
(***************************************************************************)
DigitChars == {"0", "1", "2", "3", "4", "5", "6", "7", "8", "9"}

\* the digits in order: str(n) for n < 10 is DigitsOf[n + 1]
DigitsOf == <<"0", "1", "2", "3", "4", "5", "6", "7", "8", "9">>

\* int(c) for a digit
DigitVal(c) == Code(c) - Code("0")

\* s.startswith(p) and s.endswith(p)
StartsWith(s, p) == Len(s) >= Len(p) /\ SubSeq(s, 1, Len(p)) = p
EndsWith(s, p) == Len(s) >= Len(p) /\ SubSeq(s, Len(s) - Len(p) + 1, Len(s)) = p

\* the letters a to z and A to Z, in order
LowerLetters ==
    <<"a", "b", "c", "d", "e", "f", "g", "h", "i", "j", "k", "l", "m",
      "n", "o", "p", "q", "r", "s", "t", "u", "v", "w", "x", "y", "z">>
UpperLetters ==
    <<"A", "B", "C", "D", "E", "F", "G", "H", "I", "J", "K", "L", "M",
      "N", "O", "P", "Q", "R", "S", "T", "U", "V", "W", "X", "Y", "Z">>

\* c.upper() for one character
UpperChar(c) ==
    IF \E i \in 1..Len(LowerLetters) : LowerLetters[i] = c
    THEN UpperLetters[CHOOSE i \in 1..Len(LowerLetters) : LowerLetters[i] = c]
    ELSE c

\* s.upper()
Upper(s) == [i \in 1..Len(s) |-> UpperChar(s[i])]

RECURSIVE ReplaceAll(_, _, _)
\* s.replace(pat, rep), left to right, for a non-empty pat
ReplaceAll(s, pat, rep) ==
    IF Len(s) < Len(pat) THEN s
    ELSE IF StartsWith(s, pat)
         THEN rep \o ReplaceAll(SubSeq(s, Len(pat) + 1, Len(s)), pat, rep)
         ELSE <<Head(s)>> \o ReplaceAll(Tail(s), pat, rep)

RECURSIVE DigitsToNat(_)
\* int(s) for a string of digits, 0 for ""
DigitsToNat(s) ==
    IF s = Empty THEN 0
    ELSE 10 * DigitsToNat(SubSeq(s, 1, Len(s) - 1)) + DigitVal(s[Len(s)])

\* the index of the first "." of s, or 0
FirstDot(s) ==
    IF \E i \in 1..Len(s) : s[i] = "." 
    THEN CHOOSE i \in 1..Len(s) : s[i] = "." /\ \A j \in 1..(i - 1) : s[j] # "."
    ELSE 0

\* float(s2), in hundredths, after "keep the first two segments": the digits before the
\* first dot, then all the digits after it
ToHundredths(s2) ==
    LET dot == FirstDot(s2)
        whole == IF dot = 0 THEN s2 ELSE SubSeq(s2, 1, dot - 1)
        frac == IF dot = 0 THEN Empty
                ELSE SelectSeq(SubSeq(s2, dot + 1, Len(s2)), LAMBDA c : c # ".")
        frac2 == SubSeq(frac \o <<"0", "0">>, 1, 2)
    IN  100 * DigitsToNat(whole) + DigitsToNat(frac2)

\* a mutant of ApplySign: the CR marker does not override the sign
ApplySignIgnoringCR(has_cr, neg, value) == IF neg THEN 0 - value ELSE value

\* the last lines of _amount_to_value: CR forces the value positive
ApplySign(has_cr, neg, value) ==
    IF has_cr THEN value ELSE IF neg THEN 0 - value ELSE value

\* "Detect and strip trailing CR": s without its last two characters when it ends in CR
NoMarker(s) == IF EndsWith(s, <<"C", "R">>) THEN SubSeq(s, 1, Len(s) - 2) ELSE s

\* s.replace(" ", "")
NoSpaces(s) == SelectSeq(s, LAMBDA c : c # " ")

\* s.replace("−", "-")
AsciiMinus(s) == [i \in 1..Len(s) |-> IF s[i] = "MINUS" THEN "-" ELSE s[i]]

\* neg = s.startswith("(") and s.endswith(")")
InParens(s) == StartsWith(s, <<"(">>) /\ EndsWith(s, <<")">>)

\* s[1:-1] when neg
NoParens(s) == IF InParens(s) THEN SubSeq(s, 2, Len(s) - 1) ELSE s

\* s[1:] when s starts with a minus
NoLeadMinus(s) == IF StartsWith(s, <<"-">>) THEN Tail(s) ELSE s

\* s[:-1] when s ends with a minus
NoTrailMinus(s) == IF EndsWith(s, <<"-">>) THEN SubSeq(s, 1, Len(s) - 1) ELSE s

\* from "Strip $, commas" to val: the number the digits and dots of s spell, in hundredths
Magnitude(s) ==
    LET s7 == SelectSeq(s, LAMBDA c : c # "$" /\ c # ",")
        s8 == IF StartsWith(s7, <<".">>) THEN <<"0">> \o s7 ELSE s7
        s9 == SelectSeq(s8, LAMBDA c : c \in DigitChars \/ c = ".")
    IN  IF s9 = Empty \/ s9 = <<".">> THEN 0 ELSE ToHundredths(s9)

\* _amount_to_value
AmountToValue(display) ==
    LET s0 == Upper(Strip(display))
        s3 == AsciiMinus(NoSpaces(NoMarker(s0)))
        s4 == NoParens(s3)
        s5 == NoLeadMinus(s4)
    IN  ApplySign(EndsWith(s0, <<"C", "R">>),
                  InParens(s3) \/ StartsWith(s4, <<"-">>) \/ EndsWith(s5, <<"-">>),
                  Magnitude(NoTrailMinus(s5)))

\* _value_sign: a hundredth is far above 1e-12
ValueSign(value) == IF value > 0 THEN 1 ELSE IF value < 0 THEN 0 - 1 ELSE 0

\* the display copy _parse_transactions keeps of the amount group
DisplayCopy(matched) ==
    ReplaceAll(
        ReplaceAll(
            ReplaceAll(
                ReplaceAll(
                    ReplaceAll(Strip(matched), <<" ", "$">>, <<" ", "$">>),
                    <<"$", " ">>, <<"$">>),
                <<" ", ")">>, <<")">>),
            <<"(", " ">>, <<"(">>),
        <<" ", " ">>, <<" ">>)

\* s with an optional leading character of `set` taken off
SkipOne(s, set) == IF s # Empty /\ Head(s) \in set THEN Tail(s) ELSE s

RECURSIVE NumberRun(_)
\* the longest prefix of s made of digits, commas and dots
NumberRun(s) ==
    IF s # Empty /\ (Head(s) \in DigitChars \/ Head(s) \in {",", "."})
    THEN <<Head(s)>> \o NumberRun(Tail(s))
    ELSE Empty

\* (?:\d[\d,]*\.\d+|\d[\d,]+|\.\d+) matches the whole of n
IsNumber(n) ==
    LET dot == FirstDot(n)
        before == IF dot = 0 THEN n ELSE SubSeq(n, 1, dot - 1)
        after == IF dot = 0 THEN Empty ELSE SubSeq(n, dot + 1, Len(n))
        digits(x) == \A i \in 1..Len(x) : x[i] \in DigitChars
    IN  IF dot = 0 THEN Len(n) >= 2 /\ n[1] \in DigitChars
        ELSE /\ after # Empty /\ digits(after)
             /\ before = Empty \/ before[1] \in DigitChars

\* the amount group of DATE_LINE_RE matches the whole of s:
\* [+\-−]?\s*\$?\s*\(?\s*number\s*\)?\s*(?:CR)?
MatchesAmountGroup(s) ==
    LET a == LStrip(SkipOne(s, {"+", "-", "MINUS"}))
        b == LStrip(SkipOne(a, {"$"}))
        c == LStrip(SkipOne(b, {"("}))
        n == NumberRun(c)
        d == LStrip(SubSeq(c, Len(n) + 1, Len(c)))
        e == LStrip(SkipOne(d, {")"}))
    IN  IsNumber(n) /\ (e = Empty \/ e = <<"C", "R">>)

(***************************************************************************)
(* The files a run may find.                                               *)
(***************************************************************************)
\* cells: descriptions, groups and categories, some padded as a hand-edited CSV has them
dA == <<"a">>
dApad == <<" ", "a">>
dB == <<"b">>
gG == <<"G">>
gGpad == <<" ", "G">>
gH == <<"H">>
cC == <<"C">>
cCpad == <<"C", " ">>
cD == <<"D">>

\* the description cells of a ledger row
LedgerDescs == {Empty, dA, dApad}

\* the (group, category) cells of a ledger row: blank, two full pairs, the two partial shapes
LedgerPairs == {<<Empty, Empty>>, <<gGpad, cC>>, <<gG, cD>>, <<gG, Empty>>, <<Empty, cC>>}

\* the amount cell of the i-th row: it tells the rows apart
AmountCell(i) == <<"5", ".", <<"0", "1", "2", "3", "4", "5", "6", "7", "8", "9">>[i + 1]>>

\* row i of a ledger with every required column
LedgerRow(i, desc, pair) ==
    [statement_date |-> <<"1">>, date |-> <<"2">>, description |-> desc,
     amount |-> AmountCell(i), group |-> pair[1], category |-> pair[2]]

\* `row` without column c
DropCol(row, c) == [k \in DOMAIN row \ {c} |-> row[k]]

\* ledgers with the required header and up to MaxRows rows
GoodLedgers ==
    UNION {{[exists |-> TRUE, fieldnames |-> required_cols,
             rows |-> [i \in 1..n |-> LedgerRow(i, f[i][1], f[i][2])]]
            : f \in [1..n -> LedgerDescs \X LedgerPairs]}
           : n \in 0..MaxRows}

\* ledgers that categorize refuses: no file, or a header lacking one required column
BadLedgers ==
    {[exists |-> FALSE, fieldnames |-> << >>, rows |-> << >>]}
    \cup UNION {{[exists |-> TRUE,
                  fieldnames |-> SelectSeq(required_cols, LAMBDA k : k # c),
                  rows |-> [i \in 1..n |-> DropCol(LedgerRow(i, dA, f[i]), c)]]
                 : f \in [1..n -> {<<Empty, Empty>>, <<gG, cC>>}]}
                : <<c, n>> \in {"statement_date", "date", "description", "amount",
                                "group", "category"} \X (0..MaxRows)}

\* rule files: none, one lacking a column, one-row files, and a hand-edited one
\* (capitalised header, padded cells, unsorted, a description twice, a partial row)
RuleFiles ==
    {[exists |-> FALSE, fieldnames |-> << >>, rows |-> << >>],
     [exists |-> TRUE, fieldnames |-> <<"description", "category">>,
      rows |-> <<[description |-> dA, category |-> cC]>>],
     [exists |-> TRUE, fieldnames |-> <<"Description", "Group", "Category">>,
      rows |-> <<[Description |-> dB, Group |-> gGpad, Category |-> cC],
                 [Description |-> dApad, Group |-> gG, Category |-> cCpad],
                 [Description |-> dA, Group |-> gG, Category |-> Empty],
                 [Description |-> dB, Group |-> gG, Category |-> cD]>>]}
    \cup {[exists |-> TRUE, fieldnames |-> <<"description", "group", "category">>,
           rows |-> <<RuleRow(d, p)>>]
          : <<d, p>> \in {dA, dB} \X {<<gG, cC>>, <<gG, cD>>}}

\* master category files: none, one lacking a column, a clean one, a hand-edited one
\* (capitalised header in another order, padded cells, a duplicate, a partial row, an empty row)
MasterFiles ==
    {[exists |-> FALSE, fieldnames |-> << >>, rows |-> << >>],
     [exists |-> TRUE, fieldnames |-> <<"group", "name">>,
      rows |-> <<[group |-> gG, name |-> cC]>>],
     [exists |-> TRUE, fieldnames |-> <<"group", "category">>,
      rows |-> <<[group |-> gG, category |-> cC], [group |-> gG, category |-> cD]>>],
     [exists |-> TRUE, fieldnames |-> <<"Category", "Group">>,
      rows |-> <<[Category |-> cCpad, Group |-> gGpad],
                 [Category |-> Empty, Group |-> gH],
                 [Category |-> Empty, Group |-> Empty],
                 [Category |-> cC, Group |-> gG]>>]}

\* the categorize command has not been called
CatIdle ==
    /\ ledgerFile = [exists |-> FALSE, fieldnames |-> << >>, rows |-> << >>]
    /\ rulesFile = [exists |-> FALSE, fieldnames |-> << >>, rows |-> << >>]
    /\ masterFile = [exists |-> FALSE, fieldnames |-> << >>, rows |-> << >>]
    /\ pc = "idle"
    /\ rerun = FALSE
    /\ ledger0 = ledgerFile
    /\ rulesFile0 = rulesFile
    /\ Locals0

\* no amount is being interpreted
AmountIdle ==
    /\ amount_group = Empty
    /\ amount_display = Empty
    /\ val = 0
    /\ apc = "idle"

\* _write_activity_csv has not been called
ActivityIdle ==
    /\ txns = << >>
    /\ ti = 1
    /\ pos_count = 0
    /\ neg_count = 0
    /\ pos_sum = 0
    /\ neg_sum = 0
    /\ out_rows = << >>
    /\ wpc = "idle"

\* the rule store is neither being saved nor loaded
StoreIdle ==
    /\ saved_rules = EmptyDict
    /\ store_text = << >>
    /\ loaded_rules = EmptyDict
    /\ spc = "idle"

\* check has printed nothing and counted nothing
CheckIdle ==
    /\ warn_no_group = 0
    /\ warn_no_category = 0
    /\ warn_invalid_pair = 0
    /\ warn_rule_conflict = 0
    /\ warn_rule_missing_for_used = 0
    /\ info_rule_could_apply = 0
    /\ check_log = << >>

\* no line is being dated
DateIdle ==
    /\ date_text = Empty
    /\ closing_year = 0
    /\ closing_month = 0
    /\ mm = 0
    /\ dd = 0
    /\ y_from_line = 0 - 1
    /\ full_date = Empty
    /\ dpc = "idle"

\* no statement is being scanned
ScanIdle ==
    /\ pages = << >>
    /\ page_no = 1
    /\ line_no = 1
    /\ in_section = FALSE
    /\ lines = << >>
    /\ scpc = "idle"

\* no statement date is being looked for
StmtIdle ==
    /\ pdf = [readable |-> TRUE, pages |-> << >>]
    /\ legacy_rows = 0
    /\ mmddyy = << >>
    /\ statement_date_value = << >>
    /\ out_csv = << >>
    /\ fpc = "idle"

\* everything but categorize, but the amount, but the activity CSV, but the rule store,
\* but the dating of a line, but the scan of a statement, but the statement date is idle
NotCatIdle ==
    AmountIdle /\ ActivityIdle /\ StoreIdle /\ CheckIdle /\ DateIdle /\ ScanIdle /\ StmtIdle
NotAmountIdle ==
    CatIdle /\ ActivityIdle /\ StoreIdle /\ CheckIdle /\ DateIdle /\ ScanIdle /\ StmtIdle
NotActivityIdle ==
    CatIdle /\ AmountIdle /\ StoreIdle /\ CheckIdle /\ DateIdle /\ ScanIdle /\ StmtIdle
NotStoreIdle ==
    CatIdle /\ AmountIdle /\ ActivityIdle /\ CheckIdle /\ DateIdle /\ ScanIdle /\ StmtIdle
NotDateIdle ==
    CatIdle /\ AmountIdle /\ ActivityIdle /\ StoreIdle /\ CheckIdle /\ ScanIdle /\ StmtIdle
NotScanIdle ==
    CatIdle /\ AmountIdle /\ ActivityIdle /\ StoreIdle /\ CheckIdle /\ DateIdle /\ StmtIdle
NotStmtIdle ==
    CatIdle /\ AmountIdle /\ ActivityIdle /\ StoreIdle /\ CheckIdle /\ DateIdle /\ ScanIdle

\* the state when main first calls categorize
Init ==
    /\ ledgerFile \in GoodLedgers \cup BadLedgers
    /\ rulesFile \in RuleFiles
    /\ masterFile \in MasterFiles
    /\ pc = "start"
    /\ rerun = FALSE
    /\ ledger0 = ledgerFile
    /\ rulesFile0 = rulesFile
    /\ Locals0
    /\ NotCatIdle

Next ==
    \/ LedgerNotFound
    \/ LedgerMissingColumns
    \/ LoadAll
    \/ ProcessRow
    \/ WriteLedger
    \/ SaveRules
    \/ RunAgain

\* the categorize command, run and run again
Spec == Init /\ [][Next]_vars

(***************************************************************************)
(* The interpretation of one amount: the amount group of a matched line,   *)
(* its display copy, its value.                                            *)
(***************************************************************************)
\* the digit groups of the amounts
AmountBodies ==
    {<<"5", ".", "0", "0">>, <<"1", ",", "2", "3", "4", ".", "5", "6">>,
     <<".", "9", "9">>, <<"1", "2">>, <<"0", ".", "0", "0">>}

\* the ways an amount ends: no marker, CR, and CR in other cases and after a space
AmountMarkers ==
    {Empty, <<"C", "R">>, <<" ", "C", "R">>, <<"c", "r">>, <<" ", "C", "r">>}

\* one space, where a layout puts one
Gap(spaced, after) == IF spaced /\ after # Empty THEN <<" ">> ELSE Empty

\* amount texts: every combination of a sign, "$", "(", digits, ")", a trailing minus and a
\* marker, with and without spaces after "$" and inside the parentheses
AmountTexts ==
    {sign \o dollar \o Gap(spaced, dollar) \o lp \o Gap(spaced, lp) \o body
        \o Gap(spaced, rp) \o rp \o trail \o marker :
     sign \in {Empty, <<"+">>, <<"-">>, <<"MINUS">>},
     dollar \in {Empty, <<"$">>},
     lp \in {Empty, <<"(">>},
     body \in AmountBodies,
     rp \in {Empty, <<")">>},
     trail \in {Empty, <<"-">>},
     marker \in AmountMarkers,
     spaced \in BOOLEAN}

AmountInit ==
    /\ amount_group \in AmountTexts
    /\ amount_display = Empty
    /\ val = 0
    /\ apc = "matched"
    /\ NotAmountIdle

\* _parse_transactions: the display copy of the amount group is kept in the Txn
KeepDisplay ==
    /\ apc = "matched"
    /\ amount_display' = DisplayCopy(amount_group)
    /\ apc' = "parsed"
    /\ UNCHANGED <<amount_group, val>>
    /\ UNCHANGED notAmountVars

\* _write_activity_csv: val = _amount_to_value(t.amount_display)
Interpret ==
    /\ apc = "parsed"
    /\ val' = AmountToValue(amount_display)
    /\ apc' = "valued"
    /\ UNCHANGED <<amount_group, amount_display>>
    /\ UNCHANGED notAmountVars

AmountNext ==
    \/ KeepDisplay
    \/ Interpret

\* one amount, from the matched text to its value
SpecAmount == AmountInit /\ [][AmountNext]_vars

(***************************************************************************)
(* _write_activity_csv, called by extract_activity with its two labels.    *)
(***************************************************************************)
\* pos_label and neg_label of extract_activity
pos_label == "Payments and credits"
neg_label == "Purchases and fees"

\* abs(x)
Abs(x) == IF x < 0 THEN 0 - x ELSE x

\* the display strings of the transactions of a statement
ActivityDisplays ==
    {<<"4", "5", ".", "0", "0", " ", "C", "R">>, <<"(", "5", ".", "0", "0", ")">>,
     <<"$", "5", ".", "0", "0">>, <<"-", ".", "9", "9">>, <<"1", "2">>,
     <<"0", ".", "0", "0">>}

ActivityInit ==
    /\ txns \in UNION {[1..n -> [amount_display : ActivityDisplays]] : n \in 0..MaxTxns}
    /\ ti = 1
    /\ pos_count = 0
    /\ neg_count = 0
    /\ pos_sum = 0
    /\ neg_sum = 0
    /\ out_rows = << >>
    /\ wpc = "open"
    /\ NotActivityIdle

\* the file is opened and the header row written
WriteHeader ==
    /\ wpc = "open"
    /\ out_rows' = << <<"Date", "Description", "Amount">> >>
    /\ wpc' = "rows"
    /\ UNCHANGED <<txns, ti, pos_count, neg_count, pos_sum, neg_sum>>
    /\ UNCHANGED notActivityVars

\* one pass of "for t in txns": the value is bucketed by its sign, the row written
WriteTxn ==
    /\ wpc = "rows"
    /\ ti <= Len(txns)
    /\ LET v == AmountToValue(txns[ti].amount_display)
           sgn == ValueSign(v)
       IN  /\ pos_count' = pos_count + Inc(sgn > 0)
           /\ pos_sum' = pos_sum + (IF sgn > 0 THEN v ELSE 0)
           /\ neg_count' = neg_count + Inc(sgn < 0)
           /\ neg_sum' = neg_sum + (IF sgn < 0 THEN v ELSE 0)
    /\ out_rows' = Append(out_rows, <<"txn", ti, txns[ti].amount_display>>)
    /\ ti' = ti + 1
    /\ UNCHANGED <<txns, wpc>>
    /\ UNCHANGED notActivityVars

\* the four summary rows, from the two buckets
SummaryRows(pcount, ncount, psum, nsum) ==
    LET payments_count == ncount
        payments_total == Abs(nsum)
        purchases_count == pcount
        purchases_total == 0 - Abs(psum)
    IN  << <<pos_label, "count", payments_count>>,
           <<neg_label, "count", purchases_count>>,
           <<pos_label, "total", payments_total>>,
           <<neg_label, "total", purchases_total>> >>

\* the blank row and the summary are written, the file closed
WriteSummary ==
    /\ wpc = "rows"
    /\ ti > Len(txns)
    /\ out_rows' = out_rows \o << << >> >>
                     \o SummaryRows(pos_count, neg_count, pos_sum, neg_sum)
    /\ wpc' = "done"
    /\ UNCHANGED <<txns, ti, pos_count, neg_count, pos_sum, neg_sum>>
    /\ UNCHANGED notActivityVars

ActivityNext ==
    \/ WriteHeader
    \/ WriteTxn
    \/ WriteSummary

\* the activity CSV of one statement
SpecActivity == ActivityInit /\ [][ActivityNext]_vars

(***************************************************************************)
(* The write phase of categorize, one file operation at a time: what is in *)
(* each file between open("w") and the end of the with block.  WriteLedger *)
(* and SaveRules above are these steps run to their end.                   *)
(***************************************************************************)
\* a file just opened with mode "w": it exists and is empty
TruncatedFile == [exists |-> TRUE, fieldnames |-> << >>, rows |-> << >>]

\* input_csv.open("w"): the transactions CSV is truncated
OpenLedger ==
    /\ pc = "rows"
    /\ idx > Len(rows)
    /\ ledgerFile' = TruncatedFile
    /\ written' = written \cup {"ledger"}
    /\ pc' = "ledger_header"
    /\ UNCHANGED <<rulesFile, masterFile, rerun, fieldnames, rows, idx,
                   group_to_categories, rules, total_rows, auto_assigned,
                   already_categorized, uncategorized, new_rules,
                   rules_skipped_invalid_pair, rules_skipped_conflict,
                   updated_rows, row_statuses, warnings, ledger0, rulesFile0, rules0>>
    /\ UNCHANGED notCatVars

\* writer.writeheader()
WriteLedgerHeader ==
    /\ pc = "ledger_header"
    /\ ledgerFile' = [ledgerFile EXCEPT !.fieldnames = fieldnames]
    /\ pc' = "ledger_rows"
    /\ UNCHANGED <<rulesFile, masterFile, rerun, fieldnames, rows, idx,
                   group_to_categories, rules, total_rows, auto_assigned,
                   already_categorized, uncategorized, new_rules,
                   rules_skipped_invalid_pair, rules_skipped_conflict,
                   updated_rows, row_statuses, warnings, ledger0, rulesFile0, rules0,
                   written>>
    /\ UNCHANGED notCatVars

\* writer.writerow(row), for the next row of updated_rows
WriteLedgerRow ==
    /\ pc = "ledger_rows"
    /\ Len(ledgerFile.rows) < Len(updated_rows)
    /\ ledgerFile' = [ledgerFile EXCEPT
                         !.rows = Append(@, updated_rows[Len(ledgerFile.rows) + 1])]
    /\ UNCHANGED <<rulesFile, masterFile, pc, rerun, fieldnames, rows, idx,
                   group_to_categories, rules, total_rows, auto_assigned,
                   already_categorized, uncategorized, new_rules,
                   rules_skipped_invalid_pair, rules_skipped_conflict,
                   updated_rows, row_statuses, warnings, ledger0, rulesFile0, rules0,
                   written>>
    /\ UNCHANGED notCatVars

\* the with block of the ledger ends: the file is closed
CloseLedger ==
    /\ pc = "ledger_rows"
    /\ Len(ledgerFile.rows) = Len(updated_rows)
    /\ pc' = "save_rules"
    /\ UNCHANGED <<ledgerFile, rulesFile, masterFile, rerun, fieldnames, rows, idx,
                   group_to_categories, rules, total_rows, auto_assigned,
                   already_categorized, uncategorized, new_rules,
                   rules_skipped_invalid_pair, rules_skipped_conflict,
                   updated_rows, row_statuses, warnings, ledger0, rulesFile0, rules0,
                   written>>
    /\ UNCHANGED notCatVars

\* _save_category_rules: categories_file.open("w"), the rule file is truncated
OpenRules ==
    /\ pc = "save_rules"
    /\ rulesFile' = TruncatedFile
    /\ written' = written \cup {"rules"}
    /\ pc' = "rules_header"
    /\ UNCHANGED <<ledgerFile, masterFile, rerun, fieldnames, rows, idx,
                   group_to_categories, rules, total_rows, auto_assigned,
                   already_categorized, uncategorized, new_rules,
                   rules_skipped_invalid_pair, rules_skipped_conflict,
                   updated_rows, row_statuses, warnings, ledger0, rulesFile0, rules0>>
    /\ UNCHANGED notCatVars

\* _save_category_rules: writer.writerow(["description", "group", "category"])
WriteRulesHeader ==
    /\ pc = "rules_header"
    /\ rulesFile' = [rulesFile EXCEPT !.fieldnames = <<"description", "group", "category">>]
    /\ pc' = "rules_rows"
    /\ UNCHANGED <<ledgerFile, masterFile, rerun, fieldnames, rows, idx,
                   group_to_categories, rules, total_rows, auto_assigned,
                   already_categorized, uncategorized, new_rules,
                   rules_skipped_invalid_pair, rules_skipped_conflict,
                   updated_rows, row_statuses, warnings, ledger0, rulesFile0, rules0,
                   written>>
    /\ UNCHANGED notCatVars

\* _save_category_rules: one pass of "for desc in sorted(rules)"
WriteRulesRow ==
    /\ pc = "rules_rows"
    /\ Len(rulesFile.rows) < Cardinality(DOMAIN rules)
    /\ LET desc == SortedSeq(DOMAIN rules)[Len(rulesFile.rows) + 1]
       IN  rulesFile' = [rulesFile EXCEPT !.rows = Append(@, RuleRow(desc, rules[desc]))]
    /\ UNCHANGED <<ledgerFile, masterFile, pc, rerun, fieldnames, rows, idx,
                   group_to_categories, rules, total_rows, auto_assigned,
                   already_categorized, uncategorized, new_rules,
                   rules_skipped_invalid_pair, rules_skipped_conflict,
                   updated_rows, row_statuses, warnings, ledger0, rulesFile0, rules0,
                   written>>
    /\ UNCHANGED notCatVars

\* _save_category_rules returns: the rule file is closed, the summary printed
CloseRules ==
    /\ pc = "rules_rows"
    /\ Len(rulesFile.rows) = Cardinality(DOMAIN rules)
    /\ pc' = "done"
    /\ UNCHANGED <<ledgerFile, rulesFile, masterFile, rerun, fieldnames, rows, idx,
                   group_to_categories, rules, total_rows, auto_assigned,
                   already_categorized, uncategorized, new_rules,
                   rules_skipped_invalid_pair, rules_skipped_conflict,
                   updated_rows, row_statuses, warnings, ledger0, rulesFile0, rules0,
                   written>>
    /\ UNCHANGED notCatVars

\* categorize is called on a ledger it accepts
WriteInit ==
    /\ ledgerFile \in GoodLedgers
    /\ rulesFile \in RuleFiles
    /\ masterFile \in MasterFiles
    /\ pc = "start"
    /\ rerun = FALSE
    /\ ledger0 = ledgerFile
    /\ rulesFile0 = rulesFile
    /\ Locals0
    /\ NotCatIdle

WriteNext ==
    \/ LoadAll
    \/ ProcessRow
    \/ OpenLedger
    \/ WriteLedgerHeader
    \/ WriteLedgerRow
    \/ CloseLedger
    \/ OpenRules
    \/ WriteRulesHeader
    \/ WriteRulesRow
    \/ CloseRules

\* one categorize run, its two files written operation by operation
SpecWrite == WriteInit /\ [][WriteNext]_vars

(***************************************************************************)
(* The rule store as text: what csv.writer puts in the file and what       *)
(* csv.DictReader makes of it.  The file is the sequence of its            *)
(* characters; both ends open it with newline="".                          *)
(***************************************************************************)
\* the most rules of a store that is saved and read back
MaxRules == 2

\* the characters that make csv.writer quote a field: the delimiter, the quote character
\* and the characters of the line terminator
NeedsQuote(c) == c \in {",", "\"", "\r", "\n"}

RECURSIVE DoubleQuotes(_)
\* the field with every quote character doubled
DoubleQuotes(cell) ==
    IF cell = Empty THEN Empty
    ELSE (IF Head(cell) = "\"" THEN <<"\"", "\"">> ELSE <<Head(cell)>>)
         \o DoubleQuotes(Tail(cell))

\* a mutant of CsvField: no field is quoted
CsvFieldUnquoted(cell) == cell

\* one field as csv.writer writes it (QUOTE_MINIMAL, doublequote)
CsvField(cell) ==
    IF \E i \in 1..Len(cell) : NeedsQuote(cell[i])
    THEN <<"\"">> \o DoubleQuotes(cell) \o <<"\"">>
    ELSE cell

RECURSIVE CsvJoin(_)
\* the fields joined by the delimiter
CsvJoin(cells) ==
    IF cells = << >> THEN Empty
    ELSE IF Len(cells) = 1 THEN CsvField(cells[1])
    ELSE CsvField(cells[1]) \o <<",">> \o CsvJoin(Tail(cells))

\* writer.writerow(cells): the fields, then the line terminator
CsvLine(cells) == CsvJoin(cells) \o <<"\r", "\n">>

\* the characters of a column name of the rule file
NameChars(name) ==
    CASE name = "description" -> <<"d", "e", "s", "c", "r", "i", "p", "t", "i", "o", "n">>
      [] name = "group" -> <<"g", "r", "o", "u", "p">>
      [] name = "category" -> <<"c", "a", "t", "e", "g", "o", "r", "y">>

\* the column name the characters spell: a name of the rule file, or one no loader asks for
CharsName(chars) ==
    IF \E n \in {"description", "group", "category"} : NameChars(n) = chars
    THEN CHOOSE n \in {"description", "group", "category"} : NameChars(n) = chars
    ELSE "other"

RECURSIVE RuleLines(_, _, _)
\* _save_category_rules: the lines of "for desc in sorted(rules)", from the i-th on
RuleLines(rls, order, i) ==
    IF i > Len(order) THEN Empty
    ELSE CsvLine(<<order[i], rls[order[i]][1], rls[order[i]][2]>>)
         \o RuleLines(rls, order, i + 1)

\* _save_category_rules: the text of the file
RulesText(rls) ==
    CsvLine(<<NameChars("description"), NameChars("group"), NameChars("category")>>)
    \o RuleLines(rls, SortedSeq(DOMAIN rls), 1)

\* the reader has a field complete: it joins the record
SaveField(st) == [st EXCEPT !.record = Append(@, st.field), !.field = Empty]

\* the reader has a record complete: it joins the records
EndRecord(st) ==
    [state |-> "start_record", field |-> Empty, record |-> << >>,
     records |-> Append(st.records, Append(st.record, st.field))]

\* the reader's automaton: its state after character c
ReadChar(st, c) ==
    LET newline == c \in {"\r", "\n"}
        add == [st EXCEPT !.field = Append(@, c)]
    IN  CASE st.state = "start_record" /\ newline -> st
          [] st.state \in {"start_record", "start_field"} /\ ~newline ->
                IF c = "\"" THEN [st EXCEPT !.state = "in_quoted_field"]
                ELSE IF c = "," THEN [SaveField(st) EXCEPT !.state = "start_field"]
                ELSE [add EXCEPT !.state = "in_field"]
          [] st.state = "start_field" /\ newline -> EndRecord(st)
          [] st.state = "in_field" ->
                IF newline THEN EndRecord(st)
                ELSE IF c = "," THEN [SaveField(st) EXCEPT !.state = "start_field"]
                ELSE add
          [] st.state = "in_quoted_field" ->
                IF c = "\"" THEN [st EXCEPT !.state = "quote_in_quoted_field"] ELSE add
          [] st.state = "quote_in_quoted_field" ->
                IF c = "\"" THEN [add EXCEPT !.state = "in_quoted_field"]
                ELSE IF c = "," THEN [SaveField(st) EXCEPT !.state = "start_field"]
                ELSE IF newline THEN EndRecord(st)
                ELSE [add EXCEPT !.state = "in_field"]

RECURSIVE ReadChars(_, _, _)
\* the reader run over the text from character i on; at the end of the text a record
\* that has begun is complete
ReadChars(text, i, st) ==
    IF i > Len(text)
    THEN IF st.state = "start_record" THEN st.records ELSE EndRecord(st).records
    ELSE LET next == ReadChar(st, text[i])
         IN  IF next.state = "start_record" /\ i = Len(text)
             THEN next.records
             ELSE ReadChars(text, i + 1, next)

\* csv.reader: the records of the text, each a list of fields
CsvRecords(text) ==
    ReadChars(text, 1, [state |-> "start_record", field |-> Empty,
                        record |-> << >>, records |-> << >>])

\* the dict csv.DictReader makes of a record: the names zipped with the fields, a later
\* column of a name twice in the header winning, a name past the last field absent
DictOfRecord(names, record) ==
    [n \in {names[i] : i \in 1..Len(names)} \cap {names[i] : i \in 1..Len(record)} |->
        record[CHOOSE i \in 1..Len(record) :
                  /\ i <= Len(names) /\ names[i] = n
                  /\ \A j \in 1..Len(record) : (j <= Len(names) /\ names[j] = n) => j <= i]]

\* csv.DictReader over the file: the first record is the header, the others the rows
DictRead(text) ==
    LET records == CsvRecords(text)
        names == IF records = << >> THEN << >>
                 ELSE [i \in 1..Len(records[1]) |-> CharsName(records[1][i])]
    IN  [exists |-> TRUE,
         fieldnames |-> names,
         rows |-> [i \in 1..(Len(records) - 1) |-> DictOfRecord(names, records[i + 1])]]

\* cells of a rule: with a comma, a quote character, a space, a line break inside; a quote
\* character first; an upper-case letter, which sorts before the lower-case ones
sComma == <<"a", ",", "b">>
sQuote == <<"a", "\"", "b">>
sQuoteFirst == <<"\"", "a">>
sSpace == <<"a", " ", "b">>
sLine == <<"a", "\r", "\n", "b">>
gComma == <<"G", ",", "H">>
cQuoted == <<"\"", "C", "\"">>

\* the descriptions and the pairs of the rules of a store
StoreDescs == {dA, dB, cC, sComma, sQuote, sQuoteFirst, sSpace, sLine}
StorePairs == {<<gG, cC>>, <<gComma, cD>>, <<gG, cQuoted>>}

\* the rule mappings categorize may hold when it saves: up to MaxRules descriptions
StoreMappings ==
    UNION {[D -> StorePairs] : D \in {X \in SUBSET StoreDescs : Cardinality(X) <= MaxRules}}

StoreInit ==
    /\ saved_rules \in StoreMappings
    /\ store_text = << >>
    /\ loaded_rules = EmptyDict
    /\ spc = "save"
    /\ NotStoreIdle

\* _save_category_rules(categories_file, rules)
SaveStore ==
    /\ spc = "save"
    /\ store_text' = RulesText(saved_rules)
    /\ spc' = "load"
    /\ UNCHANGED <<saved_rules, loaded_rules>>
    /\ UNCHANGED notStoreVars

\* _load_category_rules(categories_file), on the file just written
LoadStore ==
    /\ spc = "load"
    /\ loaded_rules' = LoadCategoryRules(DictRead(store_text))
    /\ spc' = "loaded"
    /\ UNCHANGED <<saved_rules, store_text>>
    /\ UNCHANGED notStoreVars

StoreNext ==
    \/ SaveStore
    \/ LoadStore

\* the rule store saved, then read back
SpecStore == StoreInit /\ [][StoreNext]_vars

(***************************************************************************)
(* The check command.  Its locals fieldnames, rows, idx, rules,            *)
(* group_to_categories and total_rows are the variables of those names;    *)
(* pc tells where it is.  A categorize call may follow it on the same      *)
(* three paths.                                                            *)
(***************************************************************************)
\* the locals of check that categorize does not have too, all unchanged
CheckCountersUnchanged ==
    UNCHANGED <<warn_no_group, warn_no_category, warn_invalid_pair, warn_rule_conflict,
                warn_rule_missing_for_used, info_rule_could_apply>>

\* the variables of categorize that check has no use for
CheckLeavesAlone ==
    UNCHANGED <<rerun, auto_assigned, already_categorized, uncategorized, new_rules,
                rules_skipped_invalid_pair, rules_skipped_conflict, updated_rows,
                row_statuses, warnings, ledger0, rulesFile0, rules0, written>>

\* check: the transactions CSV does not exist
CheckLedgerNotFound ==
    /\ pc = "check_start"
    /\ ~ledgerFile.exists
    /\ pc' = "check_aborted"
    /\ check_log' = Append(check_log, <<"ledger_not_found", 0>>)
    /\ CheckCountersUnchanged
    /\ CheckLeavesAlone
    /\ UNCHANGED <<ledgerFile, rulesFile, masterFile, fieldnames, rows, idx,
                   group_to_categories, rules, total_rows>>
    /\ UNCHANGED notCheckVars

\* check: the CSV is read and lacks a required column
CheckLedgerMissingColumns ==
    /\ pc = "check_start"
    /\ ledgerFile.exists
    /\ MissingCols(ledgerFile.fieldnames) # << >>
    /\ fieldnames' = ledgerFile.fieldnames
    /\ rows' = ledgerFile.rows
    /\ pc' = "check_aborted"
    /\ check_log' = Append(check_log, <<"missing_columns", 0>>)
    /\ CheckCountersUnchanged
    /\ CheckLeavesAlone
    /\ UNCHANGED <<ledgerFile, rulesFile, masterFile, idx, group_to_categories, rules,
                   total_rows>>
    /\ UNCHANGED notCheckVars

\* check: the CSV is read, the master categories and the rules are loaded
CheckLoad ==
    /\ pc = "check_start"
    /\ ledgerFile.exists
    /\ MissingCols(ledgerFile.fieldnames) = << >>
    /\ fieldnames' = ledgerFile.fieldnames
    /\ rows' = ledgerFile.rows
    /\ group_to_categories' = LoadGroupCategoryMaster(masterFile)
    /\ rules' = LoadCategoryRules(rulesFile)
    /\ pc' = "check_rows"
    /\ CheckCountersUnchanged
    /\ CheckLeavesAlone
    /\ UNCHANGED <<ledgerFile, rulesFile, masterFile, idx, total_rows, check_log>>
    /\ UNCHANGED notCheckVars

\* rules.get(desc): the pair, or << >> for None
RuleFor(rls, desc) == IF desc \in DOMAIN rls THEN rls[desc] ELSE << >>

\* what check prints about the row and its rule (the second half of the loop body)
CheckRuleNote(i, grp, cat, rule_pair) ==
    IF grp # Empty /\ cat # Empty
    THEN IF rule_pair = << >> THEN << <<"rule_missing_for_used", i>> >>
         ELSE IF <<grp, cat>> # rule_pair THEN << <<"rule_conflict", i>> >>
         ELSE << >>
    ELSE IF rule_pair # << >> THEN << <<"rule_could_apply", i, rule_pair>> >>
         ELSE << >>

\* what check prints about the row's own cells (the first half of the loop body)
CheckCellNotes(i, g2c, grp, cat) ==
    (IF cat # Empty /\ grp = Empty THEN << <<"no_group", i>> >> ELSE << >>)
    \o (IF grp # Empty /\ cat = Empty THEN << <<"no_category", i>> >> ELSE << >>)
    \o (IF grp # Empty /\ cat # Empty /\ cat \notin ValidCats(g2c, grp)
        THEN << <<"invalid_pair", i>> >> ELSE << >>)

\* how many notes of the kind there are
NotesOfKind(notes, kind) == Cardinality({k \in 1..Len(notes) : notes[k][1] = kind})

\* check: one pass of "for idx, row in enumerate(rows, start=1)"
CheckRow ==
    /\ pc = "check_rows"
    /\ idx <= Len(rows)
    /\ LET desc == Strip(Get(rows[idx], "description"))
           grp == Strip(Get(rows[idx], "group"))
           cat == Strip(Get(rows[idx], "category"))
           notes == CheckCellNotes(idx, group_to_categories, grp, cat)
                    \o CheckRuleNote(idx, grp, cat, RuleFor(rules, desc))
       IN  /\ check_log' = check_log \o notes
           /\ warn_no_group' = warn_no_group + NotesOfKind(notes, "no_group")
           /\ warn_no_category' = warn_no_category + NotesOfKind(notes, "no_category")
           /\ warn_invalid_pair' = warn_invalid_pair + NotesOfKind(notes, "invalid_pair")
           /\ warn_rule_conflict' = warn_rule_conflict + NotesOfKind(notes, "rule_conflict")
           /\ warn_rule_missing_for_used' =
                 warn_rule_missing_for_used + NotesOfKind(notes, "rule_missing_for_used")
           /\ info_rule_could_apply' =
                 info_rule_could_apply + NotesOfKind(notes, "rule_could_apply")
    /\ total_rows' = total_rows + 1
    /\ idx' = idx + 1
    /\ CheckLeavesAlone
    /\ UNCHANGED <<ledgerFile, rulesFile, masterFile, pc, fieldnames, rows,
                   group_to_categories, rules>>
    /\ UNCHANGED notCheckVars

\* a mutant of CheckSummary: the rules check loaded are saved as categorize saves them
CheckSummarySavingRules ==
    /\ pc = "check_rows"
    /\ idx > Len(rows)
    /\ pc' = "check_done"
    /\ rulesFile' = SavedRulesFile(rules)
    /\ CheckCountersUnchanged
    /\ CheckLeavesAlone
    /\ UNCHANGED <<ledgerFile, masterFile, fieldnames, rows, idx,
                   group_to_categories, rules, total_rows, check_log>>
    /\ UNCHANGED notCheckVars

\* check: the loop has ended, the summary is printed
CheckSummary ==
    /\ pc = "check_rows"
    /\ idx > Len(rows)
    /\ pc' = "check_done"
    /\ CheckCountersUnchanged
    /\ CheckLeavesAlone
    /\ UNCHANGED <<ledgerFile, rulesFile, masterFile, fieldnames, rows, idx,
                   group_to_categories, rules, total_rows, check_log>>
    /\ UNCHANGED notCheckVars

\* main: after check, categorize is invoked on the same three paths; what check printed stays
\* on the console
CategorizeAfterCheck ==
    /\ pc = "check_done"
    /\ pc' = "start"
    /\ Locals0Next
    /\ UNCHANGED <<ledgerFile, rulesFile, masterFile, rerun, ledger0, rulesFile0>>
    /\ UNCHANGED notCatVars

\* the state when main calls check
CheckInit ==
    /\ ledgerFile \in GoodLedgers \cup BadLedgers
    /\ rulesFile \in RuleFiles
    /\ masterFile \in MasterFiles
    /\ pc = "check_start"
    /\ rerun = FALSE
    /\ ledger0 = ledgerFile
    /\ rulesFile0 = rulesFile
    /\ Locals0
    /\ NotCatIdle

CheckNext ==
    \/ CheckLedgerNotFound
    \/ CheckLedgerMissingColumns
    \/ CheckLoad
    \/ CheckRow
    \/ CheckSummary
    \/ CategorizeAfterCheck
    \/ LoadAll
    \/ ProcessRow
    \/ WriteLedger
    \/ SaveRules

\* the check command, then the categorize command on the same files
SpecCheck == CheckInit /\ [][CheckNext]_vars

(***************************************************************************)
(* The date of a transaction line: the date groups of DATE_LINE_RE, then   *)
(* _infer_full_date.  The description and the amount of the line are       *)
(* taken to match.                                                         *)
(***************************************************************************)
RECURSIVE DigitPrefix(_)
\* the digits s starts with
DigitPrefix(s) ==
    IF s # Empty /\ Head(s) \in DigitChars THEN <<Head(s)>> \o DigitPrefix(Tail(s)) ELSE Empty

\* s without its first n characters
Drop(s, n) == SubSeq(s, n + 1, Len(s))

\* the text after the month: a separator, the day, and what follows
AfterMonth(text) == Drop(text, Len(DigitPrefix(text)))

\* the text after the day
AfterDay(text) == Drop(AfterMonth(text), 1 + Len(DigitPrefix(Tail(AfterMonth(text)))))

\* (?P<m>\d{1,2})[/-](?P<d>\d{1,2})(?:[/-](?P<y>\d{2,4}))? followed by white space:
\* the groups m, d and y of the match (y empty when the group did not take part), or no match
DateGroups(text) ==
    LET m == DigitPrefix(text)
        r1 == AfterMonth(text)
        d == IF r1 = Empty THEN Empty ELSE DigitPrefix(Tail(r1))
        r2 == IF r1 = Empty THEN Empty ELSE AfterDay(text)
        y == IF r2 = Empty THEN Empty ELSE DigitPrefix(Tail(r2))
    IN  IF /\ Len(m) \in 1..2
           /\ r1 # Empty /\ Head(r1) \in {"/", "-"}
           /\ Len(d) \in 1..2
           /\ \/ r2 = Empty
              \/ Head(r2) \in {"/", "-"} /\ Len(y) \in 2..4 /\ Len(r2) = 1 + Len(y)
        THEN [matched |-> TRUE, m |-> m, d |-> d, y |-> y]
        ELSE [matched |-> FALSE, m |-> Empty, d |-> Empty, y |-> Empty]

\* y_from_line of _parse_transactions: None (-1) without a year, else int(yy), plus 2000
\* when below 100
YearFromLine(yy) ==
    IF yy = Empty THEN 0 - 1
    ELSE IF DigitsToNat(yy) < 100 THEN DigitsToNat(yy) + 2000 ELSE DigitsToNat(yy)

RECURSIVE NatDigits(_)
\* str(n) for n >= 0
NatDigits(n) ==
    IF n < 10 THEN <<DigitsOf[n + 1]>> ELSE NatDigits(n \div 10) \o <<DigitsOf[(n % 10) + 1]>>

RECURSIVE ZeroPad(_, _)
\* s padded with zeros on the left to width w
ZeroPad(s, w) == IF Len(s) >= w THEN s ELSE ZeroPad(<<"0">> \o s, w)

\* f"{n:0wd}" for n >= 0
Fmt(n, w) == ZeroPad(NatDigits(n), w)

\* f"{year:04d}-{m:02d}-{d:02d}"
DateString(year, m, d) == Fmt(year, 4) \o <<"-">> \o Fmt(m, 2) \o <<"-">> \o Fmt(d, 2)

\* a mutant of InferFullDate: a transaction of the closing month too is put in the prior year
InferFullDatePriorFromClosingMonth(m, d, cyear, cmonth, year_on_line) ==
    IF year_on_line # 0 - 1 THEN DateString(year_on_line, m, d)
    ELSE DateString(IF m >= cmonth THEN cyear - 1 ELSE cyear, m, d)

\* _infer_full_date
InferFullDate(m, d, cyear, cmonth, year_on_line) ==
    IF year_on_line # 0 - 1 THEN DateString(year_on_line, m, d)
    ELSE DateString(IF m > cmonth THEN cyear - 1 ELSE cyear, m, d)

\* the months, days and years a line is written with; a year of one digit or of five is
\* not one the pattern takes
MonthTexts == {<<"1">>, <<"0", "6">>, <<"7">>, <<"1", "2">>}
DayTexts == {<<"2">>, <<"0", "9">>, <<"3", "1">>}
YearTexts ==
    {<<"1", "9">>, <<"0", "0">>, <<"9", "9">>, <<"2", "0", "1", "9">>, <<"1", "9", "9", "9">>,
     <<"0", "1", "9">>, <<"0", "0", "1", "9">>, <<"1", "2", "3">>, <<"5">>,
     <<"2", "0", "1", "9", "1">>}

\* the dates lines start with: month, day and maybe a year, each after "/" or "-"
DateTexts ==
    {m \o <<s>> \o d : m \in MonthTexts, s \in {"/", "-"}, d \in DayTexts}
    \cup {m \o <<s>> \o d \o <<t>> \o y :
            m \in MonthTexts, s \in {"/", "-"}, d \in DayTexts, t \in {"/", "-"},
            y \in YearTexts}

\* the closing dates _find_closing_year may return
ClosingYears == {2019, 2020}
ClosingMonths == {1, 6, 12}

DateInit ==
    /\ date_text \in DateTexts
    /\ closing_year \in ClosingYears
    /\ closing_month \in ClosingMonths
    /\ mm = 0
    /\ dd = 0
    /\ y_from_line = 0 - 1
    /\ full_date = Empty
    /\ dpc = "line"
    /\ NotDateIdle

\* _parse_transactions: the line does not match DATE_LINE_RE and is passed over
SkipLine ==
    /\ dpc = "line"
    /\ ~DateGroups(date_text).matched
    /\ dpc' = "skipped"
    /\ UNCHANGED <<date_text, closing_year, closing_month, mm, dd, y_from_line, full_date>>
    /\ UNCHANGED notDateVars

\* _parse_transactions: the line matches; mm, dd and y_from_line are taken from its groups
MatchLine ==
    /\ dpc = "line"
    /\ DateGroups(date_text).matched
    /\ mm' = DigitsToNat(DateGroups(date_text).m)
    /\ dd' = DigitsToNat(DateGroups(date_text).d)
    /\ y_from_line' = YearFromLine(DateGroups(date_text).y)
    /\ dpc' = "matched"
    /\ UNCHANGED <<date_text, closing_year, closing_month, full_date>>
    /\ UNCHANGED notDateVars

\* _parse_transactions: full_date = _infer_full_date(...), kept in the Txn
InferDate ==
    /\ dpc = "matched"
    /\ full_date' = InferFullDate(mm, dd, closing_year, closing_month, y_from_line)
    /\ dpc' = "dated"
    /\ UNCHANGED <<date_text, closing_year, closing_month, mm, dd, y_from_line>>
    /\ UNCHANGED notDateVars

DateNext ==
    \/ SkipLine
    \/ MatchLine
    \/ InferDate

\* one line of a statement, dated
SpecDate == DateInit /\ [][DateNext]_vars

(***************************************************************************)
(* _extract_activity_lines: the scan of the pages for the lines of the     *)
(* ACCOUNT ACTIVITY section.  A page is the list of the lines of its text. *)
(***************************************************************************)
\* the most pages of a statement and the most lines of a page
MaxPages == 2
MaxPageLines == 2

\* pat in s
Contains(s, pat) ==
    \E i \in 1..(Len(s) - Len(pat) + 1) : SubSeq(s, i, i + Len(pat) - 1) = pat

\* s.isupper(): a cased character at least, and no lower-case one
IsUpperStr(s) ==
    /\ \E i \in 1..Len(s) : \E k \in 1..Len(UpperLetters) : s[i] = UpperLetters[k]
    /\ \A i \in 1..Len(s) : \A k \in 1..Len(LowerLetters) : s[i] # LowerLetters[k]

ACCOUNT == <<"A", "C", "C", "O", "U", "N", "T">>
ACTIVITY == <<"A", "C", "T", "I", "V", "I", "T", "Y">>

\* the header test, on ln.strip()
IsHeaderLine(ln_clean) ==
    Contains(Upper(ln_clean), ACCOUNT) /\ Contains(Upper(ln_clean), ACTIVITY)

\* the "heuristic end" test, on ln.strip(), in_section aside
IsEndLine(ln_clean) ==
    IsUpperStr(ln_clean) /\ Len(ln_clean) > 6 /\ ~Contains(ln_clean, ACCOUNT)

\* the lines of statements: the section header, a section title that ends the section, a
\* transaction in mixed case and one in upper case, a title with ACCOUNT in it, a short
\* upper-case word with a space after it
lnHeader == <<"A", "c", "c", "o", "u", "n", "t", " ", "A", "c", "t", "i", "v", "i", "t", "y">>
lnTitle == <<"P", "A", "Y", "M", "E", "N", "T", "S">>
lnTxn == <<"1", "/", "2", " ", "S", "h", "o", "p", " ", "5", ".", "0", "0">>
lnTxnUpper == <<"1", "/", "3", " ", "S", "H", "O", "P", " ", "7", ".", "0", "0">>
lnSummary == <<"A", "C", "C", "O", "U", "N", "T", " ", "S", "U", "M", "M", "A", "R", "Y">>
lnShort == <<"T", "O", "T", "A", "L", " ">>

StatementLines == {lnHeader, lnTitle, lnTxn, lnTxnUpper, lnSummary, lnShort}

\* the pages a statement may have: up to MaxPageLines lines each
PageTexts == UNION {[1..n -> StatementLines] : n \in 0..MaxPageLines}

ScanInit ==
    /\ pages \in UNION {[1..n -> PageTexts] : n \in 0..MaxPages}
    /\ page_no = 1
    /\ line_no = 1
    /\ in_section = FALSE
    /\ lines = << >>
    /\ scpc = "pages"
    /\ NotScanIdle

\* "for page in pdf.pages": a page with text; page_lines is made and in_section = False
StartPage ==
    /\ scpc = "pages"
    /\ page_no <= Len(pages)
    /\ pages[page_no] # << >>
    /\ in_section' = FALSE
    /\ line_no' = 1
    /\ scpc' = "lines"
    /\ UNCHANGED <<pages, page_no, lines>>
    /\ UNCHANGED notScanVars

\* "if not text: continue": a page without text
SkipPage ==
    /\ scpc = "pages"
    /\ page_no <= Len(pages)
    /\ pages[page_no] = << >>
    /\ page_no' = page_no + 1
    /\ UNCHANGED <<pages, line_no, in_section, lines, scpc>>
    /\ UNCHANGED notScanVars

\* one pass of "for ln in page_lines"
ScanLine ==
    /\ scpc = "lines"
    /\ line_no <= Len(pages[page_no])
    /\ LET ln == RStrip(pages[page_no][line_no])
           ln_clean == Strip(ln)
       IN  IF IsHeaderLine(ln_clean)
           THEN in_section' = TRUE /\ lines' = lines
           ELSE IF in_section /\ IsEndLine(ln_clean)
           THEN in_section' = FALSE /\ lines' = lines
           ELSE in_section' = in_section
                /\ lines' = (IF in_section THEN Append(lines, ln) ELSE lines)
    /\ line_no' = line_no + 1
    /\ UNCHANGED <<pages, page_no, scpc>>
    /\ UNCHANGED notScanVars

\* the lines of the page are exhausted: on to the next page
EndPage ==
    /\ scpc = "lines"
    /\ line_no > Len(pages[page_no])
    /\ page_no' = page_no + 1
    /\ scpc' = "pages"
    /\ UNCHANGED <<pages, line_no, in_section, lines>>
    /\ UNCHANGED notScanVars

\* the pages are exhausted: return lines
ReturnLines ==
    /\ scpc = "pages"
    /\ page_no > Len(pages)
    /\ scpc' = "done"
    /\ UNCHANGED <<pages, page_no, line_no, in_section, lines>>
    /\ UNCHANGED notScanVars

ScanNext ==
    \/ StartPage
    \/ SkipPage
    \/ ScanLine
    \/ EndPage
    \/ ReturnLines

\* the scan of one statement
SpecScan == ScanInit /\ [][ScanNext]_vars

(***************************************************************************)
(* _find_statement_date_from_pdf and the part of extract_chase_activity    *)
(* that writes the statement date into the rows of the output CSV.         *)
(***************************************************************************)
\* the characters \s of date_pattern takes, of those the texts are written with
ReSpace == {" ", "\n"}

RECURSIVE SkipSpace(_)
\* the text after the white space \s* takes
SkipSpace(s) == IF s # Empty /\ Head(s) \in ReSpace THEN SkipSpace(Tail(s)) ELSE s

\* the text after an optional colon
SkipColon(s) == IF s # Empty /\ Head(s) = ":" THEN Tail(s) ELSE s

STATEMENT_DATE == <<"S", "T", "A", "T", "E", "M", "E", "N", "T", " ", "D", "A", "T", "E">>
CLOSING_DATE == <<"C", "L", "O", "S", "I", "N", "G", " ", "D", "A", "T", "E">>

\* (Statement Date|Closing Date) under re.IGNORECASE at the head of s: what follows the
\* label, or no match
AfterLabel(s) ==
    IF Len(s) >= Len(STATEMENT_DATE) /\ Upper(SubSeq(s, 1, Len(STATEMENT_DATE))) = STATEMENT_DATE
    THEN [matched |-> TRUE, rest |-> Drop(s, Len(STATEMENT_DATE))]
    ELSE IF Len(s) >= Len(CLOSING_DATE) /\ Upper(SubSeq(s, 1, Len(CLOSING_DATE))) = CLOSING_DATE
    THEN [matched |-> TRUE, rest |-> Drop(s, Len(CLOSING_DATE))]
    ELSE [matched |-> FALSE, rest |-> Empty]

\* [0-1]?\d/ and [0-3]?\d/ at the head of s, first being the characters the optional class
\* takes: how many characters the part takes, the slash included, 0 when it does not match
NumberSlash(s, first) ==
    IF Len(s) >= 3 /\ s[1] \in first /\ s[2] \in DigitChars /\ s[3] = "/" THEN 3
    ELSE IF Len(s) >= 2 /\ s[1] \in DigitChars /\ s[2] = "/" THEN 2
    ELSE 0

\* (?:\d{2}|\d{4}) at the head of s: how many characters it takes, 0 when it does not
\* match.  The alternative \d{2} is tried first and nothing follows the group.
YearDigits(s) ==
    IF Len(s) >= 2 /\ s[1] \in DigitChars /\ s[2] \in DigitChars THEN 2
    ELSE IF Len(s) >= 4 /\ \A k \in 1..4 : s[k] \in DigitChars THEN 4
    ELSE 0

\* ([0-1]?\d/[0-3]?\d/(?:\d{2}|\d{4})) at the head of s: the text of the group, or Empty
DateGroup(s) ==
    LET nm == NumberSlash(s, {"0", "1"})
        nd == IF nm = 0 THEN 0 ELSE NumberSlash(Drop(s, nm), {"0", "1", "2", "3"})
        ny == IF nd = 0 THEN 0 ELSE YearDigits(Drop(s, nm + nd))
    IN  IF ny = 0 THEN Empty ELSE SubSeq(s, 1, nm + nd + ny)

\* date_pattern matched at the head of s: group 2, or Empty
DatePatternAt(s) ==
    IF AfterLabel(s).matched
    THEN DateGroup(SkipSpace(SkipColon(SkipSpace(AfterLabel(s).rest))))
    ELSE Empty

RECURSIVE DatePatternSearch(_)
\* date_pattern.search(text): group 2 of the leftmost match, or Empty without a match
DatePatternSearch(text) ==
    IF text = Empty THEN Empty
    ELSE IF DatePatternAt(text) # Empty THEN DatePatternAt(text)
    ELSE DatePatternSearch(Tail(text))

\* the texts %m takes: 1[0-2]|0[1-9]|[1-9]
IsMonthText(s) ==
    \/ Len(s) = 1 /\ s[1] \in DigitChars \ {"0"}
    \/ Len(s) = 2 /\ s[1] = "0" /\ s[2] \in DigitChars \ {"0"}
    \/ Len(s) = 2 /\ s[1] = "1" /\ s[2] \in {"0", "1", "2"}

\* the texts %d takes after a slash: 3[0-1]|[1-2]\d|0[1-9]|[1-9]
IsDayText(s) ==
    \/ Len(s) = 1 /\ s[1] \in DigitChars \ {"0"}
    \/ Len(s) = 2 /\ s[1] = "0" /\ s[2] \in DigitChars \ {"0"}
    \/ Len(s) = 2 /\ s[1] \in {"1", "2"} /\ s[2] \in DigitChars
    \/ Len(s) = 2 /\ s[1] = "3" /\ s[2] \in {"0", "1"}

\* the days of a month
DaysIn(year, month) ==
    IF month = 2
    THEN (IF year % 4 = 0 /\ (year % 100 # 0 \/ year % 400 = 0) THEN 29 ELSE 28)
    ELSE IF month \in {4, 6, 9, 11} THEN 30 ELSE 31

\* the year of %y: 69 to 99 are of the 1900s, 0 to 68 of the 2000s
CenturyYear(yy) == IF yy <= 68 THEN 2000 + yy ELSE 1900 + yy

\* datetime.strptime(s, "%m/%d/%Y") when year_width is 4, "%m/%d/%y" when it is 2: the
\* date, or ValueError (ok is FALSE)
Strptime(s, year_width) ==
    LET mt == DigitPrefix(s)
        r1 == Drop(s, Len(mt))
        dt == IF r1 = Empty THEN Empty ELSE DigitPrefix(Tail(r1))
        r2 == IF r1 = Empty THEN Empty ELSE Drop(r1, 1 + Len(dt))
        yt == IF r2 = Empty THEN Empty ELSE Tail(r2)
        year == IF year_width = 4 THEN DigitsToNat(yt) ELSE CenturyYear(DigitsToNat(yt))
    IN  IF /\ IsMonthText(mt)
           /\ r1 # Empty /\ Head(r1) = "/"
           /\ IsDayText(dt)
           /\ r2 # Empty /\ Head(r2) = "/"
           /\ Len(yt) = year_width /\ DigitPrefix(yt) = yt
           /\ (year_width = 4 => year >= 1)
           /\ DigitsToNat(dt) <= DaysIn(year, DigitsToNat(mt))
        THEN [ok |-> TRUE, year |-> year, month |-> DigitsToNat(mt), day |-> DigitsToNat(dt)]
        ELSE [ok |-> FALSE, year |-> 0, month |-> 0, day |-> 0]

\* the loop over the formats "%m/%d/%Y" and "%m/%d/%y", and dt.strftime("%Y-%m-%d")
ParseStatementDate(s) ==
    IF Strptime(s, 4).ok
    THEN DateString(Strptime(s, 4).year, Strptime(s, 4).month, Strptime(s, 4).day)
    ELSE IF Strptime(s, 2).ok
    THEN DateString(Strptime(s, 2).year, Strptime(s, 2).month, Strptime(s, 2).day)
    ELSE Empty

\* what first pages are written with: what stands before the label, the labels, what stands
\* between label and date, the months, days and years, and what follows
BeforeLabel == {Empty, <<"A", "c", "c", "t", " ", "1", "/", "2", "/", "1", "7">> \o <<"\n">>}
LabelTexts == {<<"S", "t", "a", "t", "e", "m", "e", "n", "t", " ", "D", "a", "t", "e">>, <<"c", "l", "o", "s", "i", "n", "g", " ", "d", "a", "t", "e">>, <<"C", "L", "O", "S", "I", "N", "G", " ", "D", "A", "T", "E">>, <<"S", "t", "a", "t", "e", "m", "e", "n", "t", " ", " ", "D", "a", "t", "e">>, <<"D", "a", "t", "e">>}
BetweenTexts == {Empty, <<" ">>, <<":">>, <<":", " ">>, <<" ", "\n">>, <<" ", "-", " ">>}
StmtMonths == {<<"1">>, <<"0", "2">>, <<"1", "2">>, <<"1", "3">>}
StmtDays == {<<"2">>, <<"2", "9">>, <<"3", "1">>}
StmtYears == {<<"1", "8">>, <<"2", "0", "1", "8">>, <<"6", "9">>, <<"2", "0", "0", "0">>, <<"7">>}
AfterTexts == {Empty, <<" ", "P", "a", "g", "e", " ", "1">>}

\* the first pages: with a label and a date, or with neither
FirstPageTexts ==
    {b \o l \o s \o m \o <<"/">> \o d \o <<"/">> \o y \o a :
        b \in BeforeLabel, l \in LabelTexts, s \in BetweenTexts, m \in StmtMonths,
        d \in StmtDays, y \in StmtYears, a \in AfterTexts}
    \cup {Empty, <<"C", "h", "a", "s", "e">>, <<"S", "t", "a", "t", "e", "m", "e", "n", "t", " ", "D", "a", "t", "e">>, <<"C", "l", "o", "s", "i", "n", "g", " ", "D", "a", "t", "e", ":", " ", "s", "o", "o", "n">>}

StmtInit ==
    /\ pdf \in [readable : BOOLEAN,
                pages : {<< >>} \cup {<<t>> : t \in FirstPageTexts}]
    /\ legacy_rows \in {0, 2}
    /\ mmddyy = << >>
    /\ statement_date_value = << >>
    /\ out_csv = << >>
    /\ fpc = "rows_read"
    /\ NotStmtIdle

\* pdfplumber.open raises: a warning, and "" is returned
PdfUnreadable ==
    /\ fpc = "rows_read"
    /\ ~pdf.readable
    /\ statement_date_value' = Empty
    /\ fpc' = "date_found"
    /\ UNCHANGED <<pdf, legacy_rows, mmddyy, out_csv>>
    /\ UNCHANGED notStmtVars

\* "if not pdf.pages": a warning, and "" is returned
PdfNoPages ==
    /\ fpc = "rows_read"
    /\ pdf.readable
    /\ pdf.pages = << >>
    /\ statement_date_value' = Empty
    /\ fpc' = "date_found"
    /\ UNCHANGED <<pdf, legacy_rows, mmddyy, out_csv>>
    /\ UNCHANGED notStmtVars

\* date_pattern.search(text) on the text of the first page: without a match a warning, and
\* "" is returned; with one, mmddyy = m.group(2)
SearchDate ==
    /\ fpc = "rows_read"
    /\ pdf.readable
    /\ pdf.pages # << >>
    /\ IF DatePatternSearch(pdf.pages[1]) = Empty
       THEN /\ statement_date_value' = Empty
            /\ mmddyy' = mmddyy
            /\ fpc' = "date_found"
       ELSE /\ mmddyy' = DatePatternSearch(pdf.pages[1])
            /\ statement_date_value' = statement_date_value
            /\ fpc' = "parse"
    /\ UNCHANGED <<pdf, legacy_rows, out_csv>>
    /\ UNCHANGED notStmtVars

\* the loop over the two formats: the date of the first that parses, else a warning and ""
ParseDate ==
    /\ fpc = "parse"
    /\ statement_date_value' = ParseStatementDate(mmddyy)
    /\ fpc' = "date_found"
    /\ UNCHANGED <<pdf, legacy_rows, mmddyy, out_csv>>
    /\ UNCHANGED notStmtVars

\* extract_chase_activity writes the header and one row per legacy row, each with the
\* statement date in its first cell
WriteOutCsv ==
    /\ fpc = "date_found"
    /\ out_csv' = [k \in 1..legacy_rows |-> statement_date_value]
    /\ fpc' = "done"
    /\ UNCHANGED <<pdf, legacy_rows, mmddyy, statement_date_value>>
    /\ UNCHANGED notStmtVars

StmtNext ==
    \/ PdfUnreadable
    \/ PdfNoPages
    \/ SearchDate
    \/ ParseDate
    \/ WriteOutCsv

\* the statement date of one statement
SpecStmt == StmtInit /\ [][StmtNext]_vars

(***************************************************************************)
(* What the claims speak of.  A cell is empty when it is empty as          *)
(* categorize reads it, that is after strip().                             *)
(***************************************************************************)
\* the master taxonomy loaded for this run, as a set of (group, category) pairs
MasterPairs ==
    UNION {{<<g, c>> : c \in group_to_categories[g]} : g \in DOMAIN group_to_categories}

\* the loop is about to process row idx
AtRow == pc = "rows" /\ idx <= Len(rows)

\* the description, group and category of a row, trimmed
DescOf(row) == Strip(Get(row, "description"))
GroupOf(row) == Strip(Get(row, "group"))
CategoryOf(row) == Strip(Get(row, "category"))
PairOf(row) == <<GroupOf(row), CategoryOf(row)>>

\* the row carries a group and a category
FullPair(row) == GroupOf(row) # Empty /\ CategoryOf(row) # Empty

\* the row carries neither
BlankPair(row) == GroupOf(row) = Empty /\ CategoryOf(row) = Empty

\* the rows of the rule file that are about description d
RuleFileRowsFor(file, d) == {i \in 1..Len(file.rows) : file.rows[i].description = d}

\* the rule file holds exactly the one rule d -> pair for d
FileMaps(file, d, pair) ==
    /\ Cardinality(RuleFileRowsFor(file, d)) = 1
    /\ \A i \in RuleFileRowsFor(file, d) : file.rows[i] = RuleRow(d, pair)

\* the row about to be processed has a rule and carries a different pair that is in the taxonomy
ConflictingRow ==
    /\ AtRow
    /\ DescOf(rows[idx]) \in DOMAIN rules
    /\ FullPair(rows[idx])
    /\ PairOf(rows[idx]) \in MasterPairs
    /\ rules[DescOf(rows[idx])] # PairOf(rows[idx])

\* the row about to be processed carries a full pair that is not in the taxonomy
InvalidPairRow ==
    /\ AtRow
    /\ FullPair(rows[idx])
    /\ PairOf(rows[idx]) \notin MasterPairs

\* the row about to be processed has a description and no group and no category
BlankRow ==
    /\ AtRow
    /\ DescOf(rows[idx]) # Empty
    /\ BlankPair(rows[idx])

(***************************************************************************)
(* The claims.                                                             *)
(***************************************************************************)
\* C1: idempotence of categorize.  A second run on the files the first run
\* wrote leaves the ledger file and the rule file as the first run wrote
\* them, creates no rule and auto-assigns no row.
C1_Idempotent ==
    (pc = "done" /\ rerun) =>
        /\ ledgerFile = ledger0
        /\ rulesFile = rulesFile0
        /\ new_rules = 0
        /\ auto_assigned = 0

\* C2: rule stability.  A row whose description has a rule and that carries a
\* different valid pair leaves the rules as they are, adds one to
\* rules_skipped_conflict and prints one conflict warning; no step of a run
\* changes or removes a rule the store holds; and the saved file maps every
\* description the store holds to the pair it held.
C2_RuleStability ==
    [][/\ ConflictingRow =>
            /\ rules' = rules
            /\ rules_skipped_conflict' = rules_skipped_conflict + 1
            /\ new_rules' = new_rules
            /\ warnings' = Append(warnings, <<"conflict", idx>>)
       /\ pc # "done" =>
            \A d \in DOMAIN rules : d \in DOMAIN rules' /\ rules'[d] = rules[d]
       /\ pc = "save_rules" =>
            \A d \in DOMAIN rules : FileMaps(rulesFile', d, rules[d])
      ]_vars

\* a conflict with a rule learned from an earlier row of the run, saved
C2_Witness ==
    /\ pc = "done"
    /\ rules_skipped_conflict >= 1
    /\ new_rules >= 1
    /\ \E i \in 1..Len(warnings) : warnings[i][1] = "conflict"

\* C3: taxonomy gate.  A row whose group and category are both set and whose
\* pair is not in the master taxonomy adds no rule and changes none; when
\* its description is not empty it adds one to rules_skipped_invalid_pair.
C3_TaxonomyGate ==
    [][InvalidPairRow =>
            /\ rules' = rules
            /\ new_rules' = new_rules
            /\ DescOf(rows[idx]) # Empty =>
                   rules_skipped_invalid_pair' = rules_skipped_invalid_pair + 1
      ]_vars

\* an invalid pair was met, on a description that has a rule and on one that has none
C3_Witness ==
    /\ pc = "done"
    /\ rules_skipped_invalid_pair >= 2
    /\ \E i \in 1..Len(updated_rows) :
          /\ DescOf(updated_rows[i]) \in DOMAIN rules0
          /\ FullPair(updated_rows[i])
          /\ PairOf(updated_rows[i]) \notin MasterPairs

C5_AutoAssign ==
    [][/\ (BlankRow /\ DescOf(rows[idx]) \in DOMAIN rules) =>
            /\ PairOf(rows'[idx]) = rules[DescOf(rows[idx])]
            /\ Get(rows'[idx], "group") = rules[DescOf(rows[idx])][1]
            /\ Get(rows'[idx], "category") = rules[DescOf(rows[idx])][2]
            /\ updated_rows' = Append(updated_rows, rows'[idx])
            /\ auto_assigned' = auto_assigned + 1
            /\ uncategorized' = uncategorized
            /\ row_statuses' = Append(row_statuses, "auto-pending")
       /\ (BlankRow /\ DescOf(rows[idx]) \notin DOMAIN rules) =>
            /\ rows'[idx] = rows[idx]
            /\ updated_rows' = Append(updated_rows, rows[idx])
            /\ auto_assigned' = auto_assigned
            /\ uncategorized' = uncategorized + 1
            /\ row_statuses' = Append(row_statuses, "unassigned")
       /\ (pc = "rows" /\ idx > Len(rows)) => ledgerFile'.rows = updated_rows
      ]_vars

\* a blank row filled from a rule learned from an earlier row of the same run
C5_Witness ==
    /\ pc = "done"
    /\ rules0 = EmptyDict
    /\ new_rules = 1
    /\ auto_assigned = 1
    /\ row_statuses[2] = "auto-pending"
    /\ PairOf(ledgerFile.rows[2]) = PairOf(ledgerFile.rows[1])

\* C6: the rule store stays consistent with the master taxonomy.  After a
\* completed run every rule of the rewritten rule file maps its description
\* to a pair of the master taxonomy loaded for the run.
C6_RulesInTaxonomy ==
    pc = "done" =>
        \A i \in 1..Len(rulesFile.rows) :
            <<rulesFile.rows[i].group, rulesFile.rows[i].category>> \in MasterPairs

\* the ledger file is missing or lacks a required column
LedgerRefused(file) ==
    \/ ~file.exists
    \/ \E i \in 1..Len(required_cols) : ~InList(required_cols[i], file.fieldnames)

\* C10: a missing ledger, or one lacking a required column, ends the run
\* with an error: the ledger file is not written and the rule file is
\* neither created nor rewritten.
C10_RefusedLedgerWritesNothing ==
    LedgerRefused(ledger0) =>
        /\ pc \in {"start", "aborted"}
        /\ written = {}
        /\ ledgerFile = ledger0
        /\ rulesFile = rulesFile0
        /\ pc = "aborted" =>
              \E i \in 1..Len(warnings) :
                  warnings[i][1] \in {"ledger_not_found", "missing_columns"}

\* a run ended on a ledger without its category column, and no rule file was created
C10_Witness ==
    /\ pc = "aborted"
    /\ ledgerFile.exists
    /\ ~InList("category", ledgerFile.fieldnames)
    /\ Len(ledgerFile.rows) >= 1
    /\ ~rulesFile.exists


\* the text ends in the CR marker, in any letter case, once trimmed
EndsInCR(s) ==
    LET t == Strip(s)
    IN  Len(t) >= 2 /\ t[Len(t) - 1] \in {"C", "c"} /\ t[Len(t)] \in {"R", "r"}

\* the text has an opening parenthesis and, after it, a closing one
Parenthesized(s) == \E i, j \in 1..Len(s) : i < j /\ s[i] = "(" /\ s[j] = ")"

\* the text, marker aside, starts or ends with a minus, ASCII or U+2212
HasMinus(s) ==
    LET t == Strip(s)
    IN  t # Empty /\ (t[1] \in {"-", "MINUS"} \/ t[Len(t)] \in {"-", "MINUS"})

\* the number the digit groups of the text spell, in hundredths
DigitsValue(s) ==
    Magnitude(SelectSeq(s, LAMBDA c : c \in DigitChars \/ c \in {".", ","}))

\* C7: amount sign law.  The value of a display string that ends in the CR
\* marker is never negative, whatever parentheses and minus signs it has.
C7_CreditNonNegative ==
    (apc = "valued" /\ EndsInCR(amount_display)) => val >= 0

\* a credit written with a minus, a dollar sign and parentheses, valued above zero
C7_Witness ==
    /\ apc = "valued"
    /\ EndsInCR(amount_display)
    /\ Parenthesized(amount_display)
    /\ HasMinus(amount_display)
    /\ \E i \in 1..Len(amount_display) : amount_display[i] = "$"
    /\ val > 0

\* C8: without a CR marker, an amount the grammar accepts that is
\* parenthesized or has a leading or trailing minus is valued at minus its
\* magnitude, and any other at its magnitude.
C8_SignOfUnmarkedAmount ==
    (apc = "valued" /\ MatchesAmountGroup(amount_group) /\ ~EndsInCR(amount_group)) =>
        val = (IF Parenthesized(amount_group) \/ HasMinus(amount_group)
               THEN 0 - DigitsValue(amount_group)
               ELSE DigitsValue(amount_group))

\* the value of the i-th transaction
TxnValue(i) == AmountToValue(txns[i].amount_display)

RECURSIVE SumOver(_)
\* the sum of the values of the transactions whose indexes are in I
SumOver(I) ==
    IF I = {} THEN 0
    ELSE LET i == CHOOSE x \in I : TRUE IN TxnValue(i) + SumOver(I \ {i})

\* the value the written summary gives for a label and a kind (count or total)
SummaryValue(label, kind) ==
    LET i == CHOOSE k \in 1..Len(out_rows) :
                 Len(out_rows[k]) = 3 /\ out_rows[k][1] = label /\ out_rows[k][2] = kind
    IN  out_rows[i][3]

\* C9: summary buckets.  The transactions valued above zero are counted and
\* summed under "Payments and credits", those valued below zero under
\* "Purchases and fees"; the first total is >= 0 and the second <= 0.
C9_BucketsBySign ==
    wpc = "done" =>
        LET positive == {i \in 1..Len(txns) : TxnValue(i) > 0}
            negative == {i \in 1..Len(txns) : TxnValue(i) < 0}
        IN  /\ SummaryValue("Payments and credits", "count") = Cardinality(positive)
            /\ SummaryValue("Payments and credits", "total") = SumOver(positive)
            /\ SummaryValue("Purchases and fees", "count") = Cardinality(negative)
            /\ SummaryValue("Purchases and fees", "total") = SumOver(negative)
            /\ SummaryValue("Payments and credits", "total") >= 0
            /\ SummaryValue("Purchases and fees", "total") <= 0

\* the file exists and its header has no column of one of the names, in any letter case
StoreLacksColumn(file, names) ==
    file.exists /\ \E n \in names : FindField(file.fieldnames, n) = ""

\* C11: a master taxonomy file without a group or category column, or a rule
\* file without a description, group or category column, aborts the run: no
\* file is opened for writing, the ledger file and the rule file keep the
\* content they had.
C11_MalformedStoreAborts ==
    (\/ StoreLacksColumn(masterFile, {"group", "category"})
     \/ StoreLacksColumn(rulesFile0, {"description", "group", "category"})) =>
        /\ pc \in {"start", "aborted"}
        /\ written = {}
        /\ ledgerFile = ledger0
        /\ rulesFile = rulesFile0

\* the row loop of this run has ended: updated_rows and rules are what the run writes
LoopEnded == pc \notin {"start", "aborted"} /\ ~AtRow

\* C12: whole-file replace.  At every point of a run, between any two file
\* operations of its write phase too, the ledger file holds its complete
\* prior content or its complete new content, and so does the rule file.
C12_WholeFileReplace ==
    /\ \/ ledgerFile = ledger0
       \/ LoopEnded /\ ledgerFile = WrittenLedgerFile(fieldnames, updated_rows)
    /\ \/ rulesFile = rulesFile0
       \/ LoopEnded /\ rulesFile = SavedRulesFile(rules)

\* the data rows of the rule file, as the reader splits them
StoreRecords == Tail(CsvRecords(store_text))

\* C13: rule-store round trip.  A rule mapping written by
\* _save_category_rules and read back by _load_category_rules is the same
\* mapping, and the file holds one row per description, in ascending order
\* of description.
C13_RoundTrip ==
    /\ spc = "loaded" => loaded_rules = saved_rules
    /\ spc \in {"load", "loaded"} =>
          /\ Len(StoreRecords) = Cardinality(DOMAIN saved_rules)
          /\ \A i \in 1..Len(StoreRecords) :
                /\ Len(StoreRecords[i]) = 3
                /\ StoreRecords[i][1] \in DOMAIN saved_rules
                /\ <<StoreRecords[i][2], StoreRecords[i][3]>> = saved_rules[StoreRecords[i][1]]
          /\ \A i \in 1..(Len(StoreRecords) - 1) :
                StrLess(StoreRecords[i][1], StoreRecords[i + 1][1])

\* a store read back whose cells hold a comma, a quote character and a line break
C13_Witness ==
    /\ spc = "loaded"
    /\ DOMAIN saved_rules = {sComma, sLine}
    /\ saved_rules[sComma] = <<gG, cQuoted>>
    /\ loaded_rules = saved_rules
    /\ Len(store_text) > 0

\* check is running, or has ended
CheckRunning == pc \in {"check_start", "check_rows", "check_aborted", "check_done"}

\* C14: the check command modifies nothing.  No step of check changes the
\* ledger file, the rule file or the master file, creates one of them or
\* opens a file for writing, whatever the files are.
C14_CheckModifiesNothing ==
    [][CheckRunning =>
            /\ ledgerFile' = ledgerFile
            /\ rulesFile' = rulesFile
            /\ masterFile' = masterFile
            /\ written' = written
      ]_vars

\* check has ended on a ledger with rows it had something to say about, with no rule file
\* to read, and none exists afterwards
C14_Witness ==
    /\ pc = "check_done"
    /\ ~rulesFile.exists
    /\ warn_rule_missing_for_used >= 1
    /\ warn_invalid_pair >= 1
    /\ Len(check_log) >= 2
    /\ ledgerFile = ledger0

\* C19: check is a faithful dry run of categorize.  On the same three files,
\* every row check says the rules file would assign a pair to is a row
\* categorize fills with that pair, and every row check reports a rule
\* conflict for is a row categorize counts as a skipped conflict.
C19_CheckFaithful ==
    pc = "done" =>
        \A k \in 1..Len(check_log) :
            /\ check_log[k][1] = "rule_could_apply" =>
                  /\ row_statuses[check_log[k][2]] = "auto-pending"
                  /\ Get(ledgerFile.rows[check_log[k][2]], "group") = check_log[k][3][1]
                  /\ Get(ledgerFile.rows[check_log[k][2]], "category") = check_log[k][3][2]
            /\ check_log[k][1] = "rule_conflict" =>
                  \E j \in 1..Len(warnings) : warnings[j] = <<"conflict", check_log[k][2]>>

\* the rows of the ledger this run started from that satisfy P
RowsWhere(P(_)) == {i \in 1..Len(ledger0.rows) : P(ledger0.rows[i])}

\* the row arrived with a full pair that is in the taxonomy
ArrivedValid(row) == FullPair(row) /\ PairOf(row) \in MasterPairs

\* the rows this run filled: they arrived blank and were written with a group and a category
FilledRows ==
    {i \in 1..Len(ledger0.rows) :
        BlankPair(ledger0.rows[i]) /\ ~BlankPair(ledgerFile.rows[i])}

\* the descriptions of the rows of a rule file
FileDescs(file) == {file.rows[i].description : i \in 1..Len(file.rows)}

\* C18: the row counters partition the ledger.  Through the run each row
\* processed is counted in exactly one of already_categorized, auto_assigned
\* and uncategorized; after the run already_categorized counts the rows that
\* arrived with a pair of the taxonomy, auto_assigned the rows filled from a
\* rule, uncategorized all the others, and new_rules the descriptions of the
\* saved store that the loaded store did not have.
C18_CountersPartition ==
    /\ already_categorized + auto_assigned + uncategorized = total_rows
    /\ total_rows = Len(updated_rows)
    /\ pc = "done" =>
          /\ total_rows = Len(ledger0.rows)
          /\ already_categorized = Cardinality(RowsWhere(ArrivedValid))
          /\ auto_assigned = Cardinality(FilledRows)
          /\ uncategorized =
                Cardinality((1..Len(ledger0.rows)) \ (RowsWhere(ArrivedValid) \cup FilledRows))
          /\ new_rules =
                Cardinality(FileDescs(rulesFile) \ DOMAIN LoadCategoryRules(rulesFile0))

\* a run that counted one row categorized, learned its rule and filled the other row from it
C18_Witness ==
    /\ pc = "done"
    /\ total_rows = 2
    /\ already_categorized = 1
    /\ auto_assigned = 1
    /\ uncategorized = 0
    /\ new_rules = 1

\* C20: auto-assignment is safe against the taxonomy.  After a run, every
\* row that arrived blank and was filled from a rule carries a pair of the
\* master taxonomy loaded for that run.
C20_FilledRowsInTaxonomy ==
    pc = "done" => \A i \in FilledRows : PairOf(ledgerFile.rows[i]) \in MasterPairs

\* the parts of the date the line starts with: the texts between its separators
DatePart(k) ==
    LET seps == {i \in 1..Len(date_text) : date_text[i] \in {"/", "-"}}
        before == {i \in seps : Cardinality({j \in seps : j < i}) = k - 1}
        after == {i \in seps : Cardinality({j \in seps : j < i}) = k - 2}
        first == IF k = 1 THEN 1 ELSE 1 + (CHOOSE i \in after : TRUE)
        last == IF before = {} THEN Len(date_text) ELSE (CHOOSE i \in before : TRUE) - 1
    IN  SubSeq(date_text, first, last)

\* the line carries a year
HasYear == Cardinality({i \in 1..Len(date_text) : date_text[i] \in {"/", "-"}}) = 2

\* the year, the month and the day the emitted date spells
DateYear == DigitsToNat(SubSeq(full_date, 1, 4))
DateMonth == DigitsToNat(SubSeq(full_date, 6, 7))
DateDay == DigitsToNat(SubSeq(full_date, 9, 10))

\* C15: year inference.  The date of a parsed line is emitted as YYYY-MM-DD
\* with the month and the day of the line; its year is the year the line
\* carries, plus 2000 when that year is below 100 (a 2-digit year), and
\* without a year on the line it is the closing year, or the year before
\* when the month is greater than the closing month.
C15_YearInference ==
    dpc = "dated" =>
        /\ Len(full_date) = 10
        /\ full_date[5] = "-" /\ full_date[8] = "-"
        /\ \A i \in {1, 2, 3, 4, 6, 7, 9, 10} : full_date[i] \in DigitChars
        /\ DateMonth = DigitsToNat(DatePart(1))
        /\ DateDay = DigitsToNat(DatePart(2))
        /\ HasYear =>
              DateYear = (IF DigitsToNat(DatePart(3)) < 100
                          THEN 2000 + DigitsToNat(DatePart(3))
                          ELSE DigitsToNat(DatePart(3)))
        /\ ~HasYear =>
              DateYear = (IF DateMonth > closing_month THEN closing_year - 1
                          ELSE closing_year)

\* a December line without a year on a statement closing in January: dated the year before
C15_Witness ==
    /\ dpc = "dated"
    /\ ~HasYear
    /\ mm = 12
    /\ closing_month = 1
    /\ closing_year = 2020
    /\ SubSeq(full_date, 1, 4) = <<"2", "0", "1", "9">>

RECURSIVE Flatten(_)
\* the lines of all the pages, as one sequence
Flatten(pp) == IF pp = << >> THEN << >> ELSE Head(pp) \o Flatten(Tail(pp))

RECURSIVE OneFlagScan(_, _)
\* the lines collected from a sequence of lines by one flag, set by a header line, cleared
\* by an end line, the lines read while it is set being kept
OneFlagScan(seq, flag) ==
    IF seq = << >> THEN << >>
    ELSE IF IsHeaderLine(Strip(Head(seq))) THEN OneFlagScan(Tail(seq), TRUE)
    ELSE IF flag /\ IsEndLine(Strip(Head(seq))) THEN OneFlagScan(Tail(seq), FALSE)
    ELSE (IF flag THEN <<RStrip(Head(seq))>> ELSE << >>) \o OneFlagScan(Tail(seq), flag)

\* C16: activity-section scan.  The lines returned are those that one
\* in-section flag selects from the lines of all the pages taken as one
\* sequence: the flag keeps its value across a page boundary.
C16_OneFlagOverAllPages ==
    scpc = "done" => lines = OneFlagScan(Flatten(pages), FALSE)


\* the labels as the statement writes them, in any case, and what may stand between
\* label and date: an optional colon and spacing
WrittenLabels == {l \in LabelTexts : Upper(l) \in {STATEMENT_DATE, CLOSING_DATE}}
ColonAndSpacing == {s \in BetweenTexts : \A k \in 1..Len(s) : s[k] \in ReSpace \cup {":"}}

\* the year a date written with y means: YYYY for four digits, 2000 + YY for two
WrittenYear(y) == IF Len(y) = 4 THEN DigitsToNat(y) ELSE 2000 + DigitsToNat(y)

\* m/d/y is a valid calendar date written M/D/YYYY or M/D/YY
ValidWritten(m, d, y) ==
    /\ Len(y) \in {2, 4}
    /\ DigitsToNat(m) \in 1..12
    /\ DigitsToNat(d) \in 1..DaysIn(WrittenYear(y), DigitsToNat(m))

\* the first page holds a label
HasLabel(text) ==
    \E i \in 1..Len(text) : AfterLabel(SubSeq(text, i, Len(text))).matched

\* C17: statement-date location.  When the first page holds the label
\* 'Statement Date' or 'Closing Date' (any case, optional colon and spacing)
\* followed by a valid calendar date written M/D/YYYY or M/D/YY, the
\* statement date returned, and written to every row, is that date as
\* YYYY-MM-DD, the year being YYYY for the 4-digit form and 2000 + YY for the
\* 2-digit form; without a label the empty string is returned and the
\* extraction still completes.
C17_StatementDate ==
    fpc = "done" /\ pdf.readable /\ pdf.pages # << >> =>
        /\ \A b \in BeforeLabel : \A l \in WrittenLabels : StartsWith(pdf.pages[1], b \o l) =>
             \A s \in ColonAndSpacing : \A m \in StmtMonths :
               StartsWith(pdf.pages[1], b \o l \o s \o m \o <<"/">>) =>
                 \A d \in StmtDays : \A y \in StmtYears : \A a \in AfterTexts :
                   (/\ pdf.pages[1] = b \o l \o s \o m \o <<"/">> \o d \o <<"/">> \o y \o a
                    /\ ValidWritten(m, d, y))
                   => /\ statement_date_value
                           = DateString(WrittenYear(y), DigitsToNat(m), DigitsToNat(d))
                      /\ out_csv = [k \in 1..legacy_rows |-> statement_date_value]
        /\ ~HasLabel(pdf.pages[1]) => statement_date_value = Empty

=============================================================================
